---- MODULE Spec2Model ----
(***************************************************************************)
(* Composite KPI scorer of green-it-crawler (src/src/kpi/kpi-scorer.js)    *)
(* and its snapshot diff (reporting/diff-generator.js, kpi-compare.cjs).   *)
(*                                                                         *)
(* Numbers.  The scorer works on JavaScript doubles.  The model keeps them *)
(* exact: a raw weight is an integer number of hundredths (0.40 is 40), an *)
(* effective weight and a contribution are fractions num/den with den > 0, *)
(* and Math.round is floor(x + 1/2).  A JavaScript value is a record       *)
(* [t, v]: t is its typeof, v its numeric value (undefined has none, the   *)
(* model keeps 0 there and never reads it).  NaN and the infinities are    *)
(* not input values of the model.                                          *)
(***************************************************************************)
EXTENDS Integers, Sequences, FiniteSets, TLC

VARIABLES
    metrics,   \* the metrics record handed to computeCompositeKpi
    kpiCfg,    \* cfg.kpi: [weights, thresholds, score_ceilings]
    result,    \* what computeCompositeKpi returned (NoResult before the call)
    pc,        \* "input" before the call, "scored" after it; "loaded" / "diffed" for a diff
    base,      \* the older snapshot handed to the diff
    head,      \* the newer snapshot handed to the diff
    diffOut,   \* what the diff listed (NoDiff before it ran)
    cmp,       \* compareLatestReports: its arguments, the report directories, its progress
    run,       \* run(): the targets, the browser context, the totals, the files written
    crawl      \* crawlPage: the responses in flight and the two tallies of one page

vars == <<metrics, kpiCfg, result, pc, base, head, diffOut, cmp, run, crawl>>

\* a part of the program that is not running
Idle == [pc |-> "idle"]

---------------------------------------------------------------------------
(* JavaScript values *)

Num(n) == [t |-> "number", v |-> n]

Bool(b) == [t |-> "boolean", v |-> IF b THEN 1 ELSE 0]

Undefined == [t |-> "undefined", v |-> 0]

\* a YAML string scalar holding the digits of n: typeof is "string"
Str(n) == [t |-> "string", v |-> n]

\* ToNumber(x) is NaN: every comparison with it is false
IsNaN(x) == x.t = "undefined"

\* x <= y, x >= y, x > y, x < y, x == y on JavaScript values
JsLe(x, y) == ~IsNaN(x) /\ ~IsNaN(y) /\ x.v <= y.v

JsGe(x, y) == ~IsNaN(x) /\ ~IsNaN(y) /\ x.v >= y.v

JsGt(x, y) == ~IsNaN(x) /\ ~IsNaN(y) /\ x.v > y.v

JsLt(x, y) == ~IsNaN(x) /\ ~IsNaN(y) /\ x.v < y.v

JsEq(x, y) == ~IsNaN(x) /\ ~IsNaN(y) /\ x.v = y.v

\* truthiness of a metric value: false, 0 and undefined are falsy
Truthy(x) == x.t # "undefined" /\ x.v # 0

\* a || b, in place of a ?? b: a configured 0 falls back to the default
CoalesceFalsy(a, b) == IF a.t = "undefined" \/ a.v = 0 THEN b ELSE a

\* a ?? b
Coalesce(a, b) == IF a.t = "undefined" THEN b ELSE a

\* thresholds[i] of a JavaScript array (0-based i); past the end it is undefined
At(thresholds, i) == IF i + 1 <= Len(thresholds) THEN Num(thresholds[i + 1]) ELSE Undefined

\* a configured array: [t |-> "object", a |-> <<...>>]; an absent one has t = "undefined"
Arr(band) == [t |-> "object", a |-> band]

NoArr == [t |-> "undefined", a |-> << >>]

\* Math.floor in place of Math.round
MathFloor(n, d) == n \div d

\* Math.round of the fraction n/d, d > 0: floor(n/d + 1/2)
MathRound(n, d) == (2 * n + d) \div (2 * d)

Min2(a, b) == IF a <= b THEN a ELSE b

Max2(a, b) == IF a >= b THEN a ELSE b

---------------------------------------------------------------------------
(* The scorable metrics, in the key order of `weights` *)

MetricSeq ==
    << "requests", "transferKB", "domSize", "uniqueDomains", "compressedPct",
       "minifiedPct", "inlineStyles", "inlineScripts", "cssFiles", "jsFiles",
       "resizedImages", "hiddenDownloadedImages", "staticWithCookies",
       "redirects", "errors", "fontsExternal", "belowFoldNoLazy",
       "staticNoCache", "imageLegacyPct", "wastedImagePct", "hstsMissing",
       "cookieHeaderAvg" >>

Metrics == { MetricSeq[i] : i \in 1..Len(MetricSeq) }

BooleanMetrics == { "fontsExternal", "hstsMissing" }

HigherBetterMetrics == { "compressedPct", "minifiedPct" }

\* the default raw weights, in hundredths
DefaultWeight(k) ==
    CASE k = "requests"      -> 40
      [] k = "transferKB"    -> 25
      [] k = "domSize"       -> 15
      [] k = "uniqueDomains" -> 10
      [] k \in {"compressedPct", "minifiedPct"} -> 5
      [] k \in {"inlineStyles", "inlineScripts", "cssFiles", "jsFiles"} -> 2
      [] OTHER -> 1

\* the default threshold bands; the boolean metrics have none
DefaultThreshold(k) ==
    CASE k = "requests"        -> <<27, 50, 80, 120>>
      [] k = "transferKB"      -> <<300, 800, 1500, 2500>>
      [] k = "domSize"         -> <<800, 1500, 2500, 4000>>
      [] k = "uniqueDomains"   -> <<6, 10, 15, 20>>
      [] k \in {"compressedPct", "minifiedPct"} -> <<50, 70, 85, 95>>
      [] k \in {"inlineStyles", "inlineScripts", "resizedImages",
                "hiddenDownloadedImages", "staticWithCookies", "redirects",
                "staticNoCache"} -> <<0, 1, 3, 6>>
      [] k = "cssFiles"        -> <<3, 6, 10, 14>>
      [] k = "jsFiles"         -> <<5, 10, 20, 35>>
      [] k \in {"errors", "belowFoldNoLazy"} -> <<0, 1, 2, 4>>
      [] k = "imageLegacyPct"  -> <<70, 60, 40, 20>>
      [] k = "wastedImagePct"  -> <<10, 8, 6, 5>>
      [] k = "cookieHeaderAvg" -> <<1024, 2048, 3072, 4096>>
      [] OTHER -> << >>

---------------------------------------------------------------------------
(* kpi-scorer.js *)

\* `<` in place of `<=`
normalizeLowerBetterStrict(value, thresholds) ==
    IF JsLt(value, At(thresholds, 0)) THEN 100
    ELSE IF JsLt(value, At(thresholds, 1)) THEN 75
    ELSE IF JsLt(value, At(thresholds, 2)) THEN 50
    ELSE IF JsLt(value, At(thresholds, 3)) THEN 25
    ELSE 0

\* the comparisons of normalizeHigherBetter in place of its own
normalizeLowerBetterMirrored(value, thresholds) ==
    IF JsGe(value, At(thresholds, 3)) THEN 100
    ELSE IF JsGe(value, At(thresholds, 2)) THEN 75
    ELSE IF JsGe(value, At(thresholds, 1)) THEN 50
    ELSE IF JsGe(value, At(thresholds, 0)) THEN 25
    ELSE 0

normalizeLowerBetter(value, thresholds) ==
    IF JsLe(value, At(thresholds, 0)) THEN 100
    ELSE IF JsLe(value, At(thresholds, 1)) THEN 75
    ELSE IF JsLe(value, At(thresholds, 2)) THEN 50
    ELSE IF JsLe(value, At(thresholds, 3)) THEN 25
    ELSE 0

normalizeHigherBetter(value, thresholds) ==
    IF JsGe(value, At(thresholds, 3)) THEN 100
    ELSE IF JsGe(value, At(thresholds, 2)) THEN 75
    ELSE IF JsGe(value, At(thresholds, 1)) THEN 50
    ELSE IF JsGe(value, At(thresholds, 0)) THEN 25
    ELSE 0

\* the cut-offs 90, 80, 70, 60, 50, 40 in place of 90, 75, 60, 45, 30, 15
gradeAEOldCutoffs(score) ==
    IF score >= 90 THEN "A"
    ELSE IF score >= 80 THEN "B"
    ELSE IF score >= 70 THEN "C"
    ELSE IF score >= 60 THEN "D"
    ELSE IF score >= 50 THEN "E"
    ELSE IF score >= 40 THEN "F"
    ELSE "G"

gradeAE(score) ==
    IF score >= 90 THEN "A"
    ELSE IF score >= 75 THEN "B"
    ELSE IF score >= 60 THEN "C"
    ELSE IF score >= 45 THEN "D"
    ELSE IF score >= 30 THEN "E"
    ELSE IF score >= 15 THEN "F"
    ELSE "G"

\* A condition is [kind, metric, op, lit].  kind "cmp" is the expression
\* `<metric> <op> <lit>` evaluated inside with(m){...}; kind "malformed" is a
\* string that does not compile (new Function throws); a metric that is not
\* a property of m is a ReferenceError.  Both are caught and give false.
\* kind "empty" is a rule without `if` (computeScoreCeiling skips it).
evalKpiCond(m, expr) ==
    IF expr.kind # "cmp" THEN FALSE
    ELSE IF m[expr.metric].t = "undefined" THEN FALSE
    ELSE CASE expr.op = ">"  -> JsGt(m[expr.metric], Num(expr.lit))
           [] expr.op = ">=" -> JsGe(m[expr.metric], Num(expr.lit))
           [] expr.op = "<"  -> JsLt(m[expr.metric], Num(expr.lit))
           [] expr.op = "<=" -> JsLe(m[expr.metric], Num(expr.lit))
           [] OTHER          -> JsEq(m[expr.metric], Num(expr.lit))

\* max = v in place of max = Math.min(max, v): the last matching rule wins
CeilingStepLastWins(m, max, r) ==
    IF r.max_score.t # "number" \/ r.if.kind = "empty" THEN max
    ELSE IF evalKpiCond(m, r.if)
         THEN Max2(0, Min2(100, r.max_score.v))
         ELSE max

\* one pass of the loop body of computeScoreCeiling over rule r
CeilingStep(m, max, r) ==
    IF r.max_score.t # "number" \/ r.if.kind = "empty" THEN max
    ELSE IF evalKpiCond(m, r.if)
         THEN Min2(max, Max2(0, Min2(100, r.max_score.v)))
         ELSE max

\* a condition whose evaluation throws inside evalKpiCond: a syntax error, or a
\* reference to a metric the record does not hold
Unevaluable(m, expr) ==
    \/ expr.kind = "malformed"
    \/ expr.kind = "cmp" /\ m[expr.metric].t = "undefined"

\* the loop without the catch around the evaluation: it ends at the first rule whose
\* condition cannot be evaluated
RECURSIVE CeilingLoopAbort(_, _, _, _)
CeilingLoopAbort(m, rules, i, max) ==
    IF i > Len(rules) THEN max
    ELSE IF rules[i].max_score.t = "number" /\ Unevaluable(m, rules[i].if) THEN max
    ELSE CeilingLoopAbort(m, rules, i + 1, CeilingStep(m, max, rules[i]))

RECURSIVE CeilingLoop(_, _, _, _)
CeilingLoop(m, rules, i, max) ==
    IF i > Len(rules) THEN max
    ELSE CeilingLoop(m, rules, i + 1, CeilingStep(m, max, rules[i]))

computeScoreCeiling(m, cfg) == CeilingLoop(m, cfg.score_ceilings, 1, 100)

RECURSIVE SumOver(_, _)
\* sum of f[MetricSeq[j]] for j in 1..i
SumOver(f, i) == IF i = 0 THEN 0 ELSE f[MetricSeq[i]] + SumOver(f, i - 1)

\* weights: the configured value, or the default (in hundredths)
ResolveWeights(W) == [k \in Metrics |-> Coalesce(W[k], Num(DefaultWeight(k)))]

\* _sumW in hundredths: the sum of the numeric weights, 1 (= 100 hundredths)
\* when that sum is 0
SumW(weights) ==
    LET s == SumOver([k \in Metrics |-> IF weights[k].t = "number" THEN weights[k].v ELSE 0],
                     Len(MetricSeq))
    IN  IF s = 0 THEN 100 ELSE s

\* thr: the configured band, or the default
ResolveThresholds(T) ==
    [k \in Metrics \ BooleanMetrics |->
        IF T[k].t = "undefined" THEN DefaultThreshold(k) ELSE T[k].a]

Norm(m, thr, k) ==
    IF k \in BooleanMetrics THEN (IF Truthy(m[k]) THEN 40 ELSE 100)
    ELSE IF k \in HigherBetterMetrics THEN normalizeHigherBetter(m[k], thr[k])
    ELSE normalizeLowerBetter(m[k], thr[k])

\* scale, in percent: ceiling/100 below 100, else 1
ScaleNone(ceiling) == 100

Scale(ceiling) == IF ceiling < 100 THEN ceiling ELSE 100

\* score = Math.round(sum), then clamped into [0, ceiling or 100]
FinalScoreNoClamp(sumNum, den, ceiling) == MathRound(sumNum, den)

FinalScore(sumNum, den, ceiling) ==
    Max2(0, Min2(IF ceiling < 100 THEN ceiling ELSE 100, MathRound(sumNum, den)))

\* The result.  effW[k] is the fraction effW[k]/effWDen, breakdown[k] the
\* fraction breakdown[k]/breakdownDen, scale the fraction scale/100.  The
\* code divides each weight by _sumW; the model keeps the denominator
\* positive by moving the sign of a negative _sumW into the numerators.
computeCompositeKpi(m, cfg) ==
    LET weights == ResolveWeights(cfg.weights)
        sumW    == SumW(weights)
        sgn     == IF sumW < 0 THEN -1 ELSE 1
        effW    == [k \in Metrics |->
                       IF weights[k].t = "number" THEN sgn * weights[k].v ELSE 0]
        effWDen == sgn * sumW
        thr     == ResolveThresholds(cfg.thresholds)
        norms   == [k \in Metrics |-> Norm(m, thr, k)]
        parts   == [k \in Metrics |-> norms[k] * effW[k]]
        ceiling == computeScoreCeiling(m, cfg)
        scale   == Scale(ceiling)
        scaled  == IF scale # 100 THEN [k \in Metrics |-> parts[k] * scale] ELSE parts
        den     == IF scale # 100 THEN effWDen * 100 ELSE effWDen
        score   == FinalScore(SumOver(scaled, Len(MetricSeq)), den, ceiling)
    IN  [ score          |-> score,
          grade          |-> gradeAE(score),
          breakdown      |-> scaled,
          breakdownDen   |-> den,
          norms          |-> norms,
          effW           |-> effW,
          effWDen        |-> effWDen,
          ceilingApplied |-> IF ceiling < 100 THEN ceiling ELSE 100,
          scale          |-> scale ]

---------------------------------------------------------------------------
(* The inputs the scorer is run on *)

\* the longest score_ceilings list of the ceiling inputs
MaxRules == 3

\* the longest score_ceilings list of the composite inputs
MaxKpiRules == 1

\* all sequences over S of length at most n
SeqsUpTo(S, n) == UNION { [1..k -> S] : k \in 0..n }

Cmp(metric, op, lit) == [kind |-> "cmp", metric |-> metric, op |-> op, lit |-> lit]

Rule(cond, maxScore) == [if |-> cond, max_score |-> maxScore]

\* { if: "errors > 5", max_score: 50 }
RuleErrors50 == Rule(Cmp("errors", ">", 5), Num(50))

\* { if: "requests > 100", max_score: 30 }
RuleRequests30 == Rule(Cmp("requests", ">", 100), Num(30))

\* { if: "errors > 5", max_score: 150 }, above the range
RuleErrors150 == Rule(Cmp("errors", ">", 5), Num(150))

\* { if: "requests >= 10", max_score: -10 }, below the range
RuleRequestsNeg == Rule(Cmp("requests", ">=", 10), Num(-10))

\* { if: "errors >", max_score: 20 }, which does not compile
RuleMalformed == Rule([kind |-> "malformed", metric |-> "errors", op |-> ">", lit |-> 0], Num(20))

\* { if: "errors > 5", max_score: "40" }, max_score not a number
RuleString40 == Rule(Cmp("errors", ">", 5), Str(40))

\* { max_score: 10 }, no condition
RuleNoIf == Rule([kind |-> "empty", metric |-> "errors", op |-> ">", lit |-> 0], Num(10))

CeilingRules ==
    { RuleErrors50, RuleRequests30, RuleErrors150, RuleRequestsNeg,
      RuleMalformed, RuleString40, RuleNoIf }

KpiRules == { RuleErrors50, RuleRequests30, RuleRequestsNeg }

\* raw weights, in hundredths
WeightVals == { -100, 0, 22, 78, 100 }

\* cut-points and metric values of the band inputs
BandVals == { 20, 40, 60 }

NormVals == { 10, 20, 30, 40, 50, 60, 70 }

\* a metrics record with no metric measured
NoMetrics == [k \in Metrics |-> Undefined]

\* a metrics record of an empty page: every count 0, every flag false
ZeroMetrics == [k \in Metrics |-> IF k \in BooleanMetrics THEN Bool(FALSE) ELSE Num(0)]

NoWeights == [k \in Metrics |-> Undefined]

ZeroWeights == [k \in Metrics |-> Num(0)]

NoThresholds == [k \in Metrics \ BooleanMetrics |-> NoArr]

Cfg(W, T, rules) == [weights |-> W, thresholds |-> T, score_ceilings |-> rules]

\* a parsed YAML document with a kpi section, and the empty document (yaml.parse gives null)
YamlDoc(kpi) == [t |-> "object", kpi |-> kpi]

YamlNull == [t |-> "null", kpi |-> Cfg(NoWeights, NoThresholds, << >>)]

\* loadConfig: return yaml.parse(cfgText) || {} -- the document as parsed, nothing is
\* checked or rejected; main.js then passes cfg.kpi || {} to the scorer
loadConfig(doc) == IF doc.t = "object" THEN doc ELSE YamlDoc(YamlNull.kpi)

\* composite inputs: metrics, weights and a short rule list vary together
KpiInputs ==
    \E mbase \in {NoMetrics, ZeroMetrics},
       r \in {Undefined, Num(10), Num(60), Num(130)},
       e \in {Num(0), Num(6)},
       h \in {Bool(FALSE), Bool(TRUE)},
       wbase \in {NoWeights, ZeroWeights},
       a \in {Undefined} \cup {Num(w) : w \in WeightVals},
       b \in {Undefined} \cup {Num(w) : w \in WeightVals},
       rules \in SeqsUpTo(KpiRules, MaxKpiRules) :
        /\ metrics = [mbase EXCEPT !["requests"] = r, !["errors"] = e, !["hstsMissing"] = h]
        /\ kpiCfg = loadConfig(YamlDoc(Cfg([wbase EXCEPT !["requests"] = a,
                                                          !["transferKB"] = b],
                                            NoThresholds, rules))).kpi

\* band inputs: every band over BandVals, of any length up to 4, ordered or not
BandInputs ==
    \E v \in {Undefined} \cup {Num(n) : n \in NormVals},
       band \in SeqsUpTo(BandVals, 4) :
        /\ metrics = [ZeroMetrics EXCEPT !["requests"] = v, !["compressedPct"] = v]
        /\ kpiCfg = loadConfig(YamlDoc(Cfg(NoWeights,
                                            [NoThresholds EXCEPT !["requests"] = Arr(band),
                                                                 !["compressedPct"] = Arr(band)],
                                            << >>))).kpi

\* ceiling inputs: every rule list up to MaxRules, in every order
CeilingInputs ==
    \E e \in {Undefined, Num(0), Num(6)},
       r \in {Num(10), Num(130)},
       rules \in SeqsUpTo(CeilingRules, MaxRules),
       doc \in {"object", "null"} :
        /\ metrics = [ZeroMetrics EXCEPT !["errors"] = e, !["requests"] = r]
        /\ kpiCfg = loadConfig(IF doc = "null" /\ rules = << >> THEN YamlNull
                               ELSE YamlDoc(Cfg(NoWeights, NoThresholds, rules))).kpi

NoResult ==
    [ score |-> 0, grade |-> "", breakdown |-> [k \in Metrics |-> 0], breakdownDen |-> 1,
      norms |-> [k \in Metrics |-> 0], effW |-> [k \in Metrics |-> 0], effWDen |-> 1,
      ceilingApplied |-> 0, scale |-> 0 ]

---------------------------------------------------------------------------
(* The state machine: one call of computeCompositeKpi on one page *)

\* a snapshot without score and pages, and the diff before it was built
NoSnapshot == [score100 |-> Undefined, grade |-> "", pages |-> << >>]

NoDiff == [prodDelta |-> 0, prodGrade |-> << >>, rows |-> << >>]

Init ==
    /\ (KpiInputs \/ BandInputs \/ CeilingInputs)
    /\ result = NoResult
    /\ pc = "input"
    /\ base = NoSnapshot
    /\ head = NoSnapshot
    /\ diffOut = NoDiff
    /\ cmp = Idle
    /\ run = Idle
    /\ crawl = Idle

\* main.js: const kpi = computeCompositeKpi(metrics, cfg.kpi || {})
Score ==
    /\ pc = "input"
    /\ result' = computeCompositeKpi(metrics, kpiCfg)
    /\ pc' = "scored"
    /\ UNCHANGED <<metrics, kpiCfg, base, head, diffOut, cmp, run, crawl>>

Next == Score

Spec == Init /\ [][Next]_vars

---------------------------------------------------------------------------
(* Properties of the scorer *)

Scored == pc = "scored"

\* the sum of the contributions before rounding, as the fraction RawSum/breakdownDen
RawSum == SumOver(result.breakdown, Len(MetricSeq))

\* the weighted sum of the sub-scores before the ceiling, as the fraction PreSum/effWDen
PreSum == SumOver([k \in Metrics |-> result.norms[k] * result.effW[k]], Len(MetricSeq))

MatchingRules ==
    { i \in 1..Len(kpiCfg.score_ceilings) :
        /\ kpiCfg.score_ceilings[i].max_score.t = "number"
        /\ kpiCfg.score_ceilings[i].if.kind = "cmp"
        /\ evalKpiCond(metrics, kpiCfg.score_ceilings[i].if) }

ClampedMax(i) ==
    LET v == kpiCfg.score_ceilings[i].max_score.v
    IN  IF v < 0 THEN 0 ELSE IF v > 100 THEN 100 ELSE v

\* the least element of a non-empty finite set of integers
SetMin(S) == CHOOSE x \in S : \A y \in S : x <= y

Reorderings(n) == { p \in [1..n -> 1..n] : \A i, j \in 1..n : p[i] = p[j] => i = j }

\* C2: the ceiling is the minimum of the clamped max_score of the matching rules,
\* 100 when none matches, and every reordering of the rule list gives the same ceiling.
C2_CeilingIsMinOfMatching ==
    Scored =>
        /\ result.ceilingApplied = SetMin({100} \cup { ClampedMax(i) : i \in MatchingRules })
        /\ \A p \in Reorderings(Len(kpiCfg.score_ceilings)) :
              computeScoreCeiling(metrics,
                  [kpiCfg EXCEPT !.score_ceilings =
                      [i \in 1..Len(kpiCfg.score_ceilings) |-> kpiCfg.score_ceilings[p[i]]]])
              = result.ceilingApplied

\* C2 witness: two matching rules with different caps, the stricter one first.
C2_Witness ==
    /\ Scored
    /\ Len(kpiCfg.score_ceilings) >= 2
    /\ \E i, j \in MatchingRules : i < j /\ ClampedMax(i) < ClampedMax(j)
    /\ result.ceilingApplied = 30

\* the case of C3: errors = 6 and the single rule { if: "errors > 5", max_score: 50 }
Scenario2 ==
    /\ Scored
    /\ metrics["errors"] = Num(6)
    /\ kpiCfg.score_ceilings = << RuleErrors50 >>

\* C3 as stated: in that case ceilingApplied is 50 and a weighted sum of 78 gives score 50.
C3_AsStated ==
    Scenario2 =>
        /\ result.ceilingApplied = 50
        /\ (PreSum = 78 * result.effWDen => result.score = 50)

\* C3: in that case ceilingApplied is 50 and a weighted sum of 78 gives the score
\* round(78 * 50/100) = 39: the contributions are scaled by the ceiling before the clamp.
C3_ScaledBeforeClamp ==
    Scenario2 =>
        /\ result.ceilingApplied = 50
        /\ (PreSum = 78 * result.effWDen => result.score = 39)

\* C3 witness: the case, with a weighted sum of exactly 78.
C3_Witness == Scenario2 /\ PreSum = 78 * result.effWDen

\* a/b = c/d for fractions whose denominators are equal or differ by the factor 100
SameFraction(a, b, c, d) ==
    \/ b = d /\ a = c
    \/ 100 * b = d /\ 100 * a = c
    \/ b = 100 * d /\ a = 100 * c

\* C4: breakdown[k] = norms[k] * effW[k] * scale with scale = ceiling/100 below 100 and 1
\* otherwise, and score is round(sum of the breakdown), half rounded up, clamped into
\* [0, ceilingApplied].
C4_ScoreIsRoundedScaledSum ==
    Scored =>
        LET c == result.ceilingApplied
            d == 100 * result.effWDen
            n == SumOver([k \in Metrics |-> result.norms[k] * result.effW[k] * result.scale],
                         Len(MetricSeq))
        IN  /\ result.scale = (IF c < 100 THEN c ELSE 100)
            /\ \A k \in Metrics : SameFraction(result.breakdown[k], result.breakdownDen,
                      result.norms[k] * result.effW[k] * result.scale, d)
            /\ \/ result.score = 0 /\ 2 * n + d < 2 * d
               \/ result.score = c /\ 2 * n + d >= 2 * d * c
               \/ /\ 0 < result.score /\ result.score < c
                  /\ 2 * d * result.score <= 2 * n + d
                  /\ 2 * n + d < 2 * d * (result.score + 1)

\* C4 witness: a ceiling below 100, a sum that is no integer, a score strictly inside.
C4_Witness ==
    /\ Scored
    /\ result.ceilingApplied < 100
    /\ 0 < result.score /\ result.score < result.ceilingApplied
    /\ RawSum # result.score * result.breakdownDen
    /\ RawSum > result.score * result.breakdownDen

GradeTable(s) ==
    CASE s \in 90..100 -> "A"
      [] s \in 75..89  -> "B"
      [] s \in 60..74  -> "C"
      [] s \in 45..59  -> "D"
      [] s \in 30..44  -> "E"
      [] s \in 15..29  -> "F"
      [] s \in 0..14   -> "G"

\* A is rank 7, G is rank 1
GradeRank(g) ==
    CASE g = "A" -> 7 [] g = "B" -> 6 [] g = "C" -> 5 [] g = "D" -> 4
      [] g = "E" -> 3 [] g = "F" -> 2 [] g = "G" -> 1

\* C5: the grade is the table's grade of the final score; the table never gives a
\* higher score a lower grade; the grade is never better than the grade of ceilingApplied.
C5_GradeOfFinalScore ==
    Scored =>
        /\ result.grade = GradeTable(result.score)
        /\ \A s \in 0..100 : gradeAE(s) = GradeTable(s)
        /\ \A s \in 0..99 : GradeRank(gradeAE(s)) <= GradeRank(gradeAE(s + 1))
        /\ GradeRank(result.grade) <= GradeRank(GradeTable(result.ceilingApplied))

\* C5 witness: the weighted sum before the ceiling is in a better grade than the final score.
C5_Witness ==
    /\ Scored
    /\ result.ceilingApplied < 100
    /\ PreSum >= 90 * result.effWDen
    /\ result.grade = "E"

\* the band metric k is normalized against: the configured one, else dflt
BandOf(k, dflt) == IF kpiCfg.thresholds[k].t = "undefined" THEN dflt ELSE kpiCfg.thresholds[k].a

\* n is the lower-is-better sub-score of the number v for the band b of four cut-points
LowerBetterIs(v, b, n) ==
    \/ v <= b[1] /\ n = 100
    \/ v > b[1] /\ v <= b[2] /\ n = 75
    \/ v > b[1] /\ v > b[2] /\ v <= b[3] /\ n = 50
    \/ v > b[1] /\ v > b[2] /\ v > b[3] /\ v <= b[4] /\ n = 25
    \/ v > b[1] /\ v > b[2] /\ v > b[3] /\ v > b[4] /\ n = 0

\* n is the higher-is-better sub-score of the number v for the band b of four cut-points
HigherBetterIs(v, b, n) ==
    \/ v >= b[4] /\ n = 100
    \/ v < b[4] /\ v >= b[3] /\ n = 75
    \/ v < b[4] /\ v < b[3] /\ v >= b[2] /\ n = 50
    \/ v < b[4] /\ v < b[3] /\ v < b[2] /\ v >= b[1] /\ n = 25
    \/ v < b[4] /\ v < b[3] /\ v < b[2] /\ v < b[1] /\ n = 0

\* C6: for a band of four cut-points and a numeric value, the sub-score of a
\* lower-is-better metric (requests) is 100/75/50/25/0 by the first cut-point the value
\* does not exceed, that of a higher-is-better metric (compressedPct) is the mirror, and
\* requests = 10 against the default band [27,50,80,120] gives 100.
C6_BandTable ==
    Scored =>
        /\ (metrics["requests"].t = "number" /\ Len(BandOf("requests", <<27, 50, 80, 120>>)) = 4)
              => LowerBetterIs(metrics["requests"].v, BandOf("requests", <<27, 50, 80, 120>>),
                               result.norms["requests"])
        /\ (metrics["compressedPct"].t = "number"
               /\ Len(BandOf("compressedPct", <<50, 70, 85, 95>>)) = 4)
              => HigherBetterIs(metrics["compressedPct"].v,
                                BandOf("compressedPct", <<50, 70, 85, 95>>),
                                result.norms["compressedPct"])
        /\ (metrics["requests"] = Num(10) /\ kpiCfg.thresholds["requests"].t = "undefined")
              => result.norms["requests"] = 100

\* C6 witness: requests = 10 scored against the default band.
C6_Witness ==
    /\ Scored
    /\ metrics["requests"] = Num(10)
    /\ kpiCfg.thresholds["requests"].t = "undefined"
    /\ result.norms["requests"] = 100

\* C7: for the band requests was normalized against, ordered or not, no larger value
\* gets a higher sub-score and no smaller value a lower one.
C7_LowerBetterMonotone ==
    (Scored /\ metrics["requests"].t = "number") =>
        LET b == BandOf("requests", <<27, 50, 80, 120>>)
            v == metrics["requests"].v
        IN  \A v2 \in NormVals \cup {0, 27, 28, 130} :
              /\ v <= v2 => result.norms["requests"] >= normalizeLowerBetter(Num(v2), b)
              /\ v2 <= v => normalizeLowerBetter(Num(v2), b) >= result.norms["requests"]

\* C7 witness: a band of four cut-points that is not ordered, and a larger value with a
\* strictly lower sub-score.
C7_Witness ==
    /\ Scored
    /\ metrics["requests"].t = "number"
    /\ kpiCfg.thresholds["requests"].t = "object"
    /\ LET b == kpiCfg.thresholds["requests"].a
       IN  /\ Len(b) = 4
           /\ \E i, j \in 1..4 : i < j /\ b[i] > b[j]
           /\ \E v2 \in NormVals :
                 /\ v2 > metrics["requests"].v
                 /\ normalizeLowerBetter(Num(v2), b) < result.norms["requests"]

\* the raw weight of metric k, in hundredths: the configured value, else the default
RawWeight(k) ==
    IF kpiCfg.weights[k].t = "undefined" THEN DefaultWeight(k)
    ELSE IF kpiCfg.weights[k].t = "number" THEN kpiCfg.weights[k].v ELSE 0

\* C8 as stated: when some raw weight is non-zero, every scorable metric has an
\* effective weight and the effective weights add up to 1.
C8_AsStated ==
    (Scored /\ \E k \in Metrics : RawWeight(k) # 0) =>
        /\ DOMAIN result.effW = Metrics
        /\ SumOver(result.effW, Len(MetricSeq)) = result.effWDen

\* every raw weight is configured, as 0
AllWeightsZero == \A k \in Metrics : kpiCfg.weights[k] = Num(0)

\* C9: when every raw weight is configured as 0, the call returns: the weights are
\* divided by 1 (100 hundredths), every effective weight is 0 and the score is 0.
C9_AllZeroWeights ==
    (Scored /\ AllWeightsZero) =>
        /\ result.effWDen = 100
        /\ \A k \in Metrics : result.effW[k] = 0
        /\ result.score = 0

\* C9 witness: a scored page with every weight 0 whose sub-scores are not all 0.
C9_Witness ==
    /\ Scored
    /\ AllWeightsZero
    /\ \E k \in Metrics : result.norms[k] = 100

\* C10 as stated: every effective weight lies in [0, 1].
C10_AsStated ==
    Scored => \A k \in Metrics : 0 <= result.effW[k] /\ result.effW[k] <= result.effWDen

---------------------------------------------------------------------------
(* Properties of the loaded configuration and of missing inputs *)

\* the band the scorer uses for metric k: the configured one, else the default
UsedBand(k) == BandOf(k, DefaultThreshold(k))

WellFormedBand(b) ==
    /\ Len(b) = 4
    /\ \A i \in 1..3 : b[i] <= b[i + 1]

\* C11 (as stated): every band the scorer uses, configured or default, holds exactly
\* four cut-points in non-decreasing order; a malformed band never reaches a call.
C11_AsStated ==
    Scored => \A k \in Metrics \ BooleanMetrics : WellFormedBand(UsedBand(k))

\* the metrics record with metric k replaced by the value the spec substitutes for a
\* missing one: false for a boolean metric, 0 for a numeric one
WithDefault(k) ==
    [metrics EXCEPT ![k] = IF k \in BooleanMetrics THEN Bool(FALSE) ELSE Num(0)]

\* a metric that is absent from the record or is not a number / boolean
MissingMetric(k) == metrics[k].t \notin {"number", "boolean"}

\* C12 (as stated): a call in which metric k is missing gives the same score, grade and
\* sub-score for k as the call on the same record with k = 0 (false for a boolean).
C12_AsStated ==
    Scored =>
        \A k \in Metrics :
            MissingMetric(k) =>
                LET zeroed == computeCompositeKpi(WithDefault(k), kpiCfg)
                IN  /\ result.score = zeroed.score
                    /\ result.grade = zeroed.grade
                    /\ result.norms[k] = zeroed.norms[k]

\* the ceiling the rule list gives when rule i is left out
CeilingWithout(i) ==
    IF MatchingRules \ {i} = {} THEN 100
    ELSE SetMin({ClampedMax(j) : j \in MatchingRules \ {i}})

\* the rules with a numeric max_score whose condition cannot be evaluated
UnevaluableRules ==
    { i \in 1..Len(kpiCfg.score_ceilings) :
        /\ kpiCfg.score_ceilings[i].max_score.t = "number"
        /\ Unevaluable(metrics, kpiCfg.score_ceilings[i].if) }

\* C13: a ceiling rule whose condition cannot be evaluated counts as non-matching: the
\* call still returns a score, the ceiling is the one the list gives without that rule,
\* and every matching rule after it still lowers the ceiling.
C13_UnevaluableRuleSkipped ==
    Scored =>
        \A i \in UnevaluableRules :
            /\ result.score \in 0..100
            /\ i \notin MatchingRules
            /\ result.ceilingApplied = CeilingWithout(i)
            /\ \A j \in MatchingRules : j > i => result.ceilingApplied <= ClampedMax(j)

\* C13 witness: the first rule cannot be evaluated and a later matching rule set the ceiling.
C13_Witness ==
    /\ Scored
    /\ 1 \in UnevaluableRules
    /\ \E j \in MatchingRules :
        /\ j > 1
        /\ ClampedMax(j) < 100
        /\ result.ceilingApplied = ClampedMax(j)

---------------------------------------------------------------------------
(* The original monolithic scorer, greenit-kpi-runner-v3.9.7.js *)

Orig_normalizeLowerBetter(value, thresholds) ==
    IF JsLe(value, At(thresholds, 0)) THEN 100
    ELSE IF JsLe(value, At(thresholds, 1)) THEN 80
    ELSE IF JsLe(value, At(thresholds, 2)) THEN 60
    ELSE IF JsLe(value, At(thresholds, 3)) THEN 40
    ELSE 20

Orig_normalizeHigherBetter(value, thresholds) ==
    IF JsGe(value, At(thresholds, 3)) THEN 100
    ELSE IF JsGe(value, At(thresholds, 2)) THEN 80
    ELSE IF JsGe(value, At(thresholds, 1)) THEN 60
    ELSE IF JsGe(value, At(thresholds, 0)) THEN 40
    ELSE 20

Orig_gradeAE(score) ==
    IF score >= 90 THEN "A"
    ELSE IF score >= 80 THEN "B"
    ELSE IF score >= 70 THEN "C"
    ELSE IF score >= 60 THEN "D"
    ELSE IF score >= 50 THEN "E"
    ELSE IF score >= 40 THEN "F"
    ELSE "G"

Orig_Norm(m, thr, k) ==
    IF k \in BooleanMetrics THEN (IF Truthy(m[k]) THEN 40 ELSE 100)
    ELSE IF k \in HigherBetterMetrics THEN Orig_normalizeHigherBetter(m[k], thr[k])
    ELSE Orig_normalizeLowerBetter(m[k], thr[k])

\* the body is the modular one line for line (same weights, bands, ceiling, scale and
\* clamp); evalKpiCond and computeScoreCeiling are the same text in both files
Orig_computeCompositeKpi(m, cfg) ==
    LET weights == ResolveWeights(cfg.weights)
        sumW    == SumW(weights)
        sgn     == IF sumW < 0 THEN -1 ELSE 1
        effW    == [k \in Metrics |->
                       IF weights[k].t = "number" THEN sgn * weights[k].v ELSE 0]
        effWDen == sgn * sumW
        thr     == ResolveThresholds(cfg.thresholds)
        norms   == [k \in Metrics |-> Orig_Norm(m, thr, k)]
        parts   == [k \in Metrics |-> norms[k] * effW[k]]
        ceiling == computeScoreCeiling(m, cfg)
        scale   == Scale(ceiling)
        scaled  == IF scale # 100 THEN [k \in Metrics |-> parts[k] * scale] ELSE parts
        den     == IF scale # 100 THEN effWDen * 100 ELSE effWDen
        score   == FinalScore(SumOver(scaled, Len(MetricSeq)), den, ceiling)
    IN  [ score          |-> score,
          grade          |-> Orig_gradeAE(score),
          breakdown      |-> scaled,
          breakdownDen   |-> den,
          norms          |-> norms,
          effW           |-> effW,
          effWDen        |-> effWDen,
          ceilingApplied |-> IF ceiling < 100 THEN ceiling ELSE 100,
          scale          |-> scale ]

\* C14 (as stated): for every metrics record and configuration the modular
\* computeCompositeKpi returns the score and the grade the v3.9.7 original returns.
C14_AsStated ==
    Scored =>
        LET orig == Orig_computeCompositeKpi(metrics, kpiCfg)
        IN  /\ result.score = orig.score
            /\ result.grade = orig.grade

---------------------------------------------------------------------------
(* The snapshot diff: _buildDiffMd of reporting/diff-generator.js, which   *)
(* kpi-compare.cjs repeats statement for statement.                        *)
(*                                                                         *)
(* A snapshot is [score100, grade, pages]; a page is [name, url, score,    *)
(* grade, weight, ceilingApplied, breakdown, metrics].  score100, score,   *)
(* weight and ceilingApplied are JavaScript values holding integers.  A    *)
(* breakdown maps metric keys to contributions and a metrics object maps   *)
(* metric keys to JavaScript values; both count in halves (3 is 1.5), so   *)
(* that Math.round has something to round; a key outside the DOMAIN is a   *)
(* property the object does not have.  The model keeps the rows and lists  *)
(* the Markdown text is printed from, not the text.                        *)

Null == [t |-> "null", v |-> 0]

\* obj[k] of a JavaScript object
Get(obj, k) == IF k \in DOMAIN obj THEN obj[k] ELSE Undefined

\* x || 0
OrZero(x) == IF Truthy(x) THEN x.v ELSE 0

\* typeof x === 'number' ? x : 0
NumberOrZero(x) == IF x.t = "number" THEN x.v ELSE 0

Abs(n) == IF n < 0 THEN -n ELSE n

\* String.prototype.toLowerCase on the names and urls of the inputs
toLowerCase(s) ==
    CASE s = "Home"  -> "home"
      [] s = "Cart"  -> "cart"
      [] s = "/Home" -> "/home"
      [] s = "Shop"  -> "shop"
      [] s = "Blog"  -> "blog"
      [] s = "Docs"  -> "docs"
      [] s = "News"  -> "news"
      [] s = "My Shop" -> "my shop"
      [] OTHER       -> s

\* _gradeArrow: one grade when both are the same, else the pair base, head
gradeArrow(a, b) == IF a = b THEN <<a>> ELSE <<a, b>>

\* grade || '?'
GradeOr(g) == IF g = "" THEN "?" ELSE g

\* the key _mapPagesBy files a page under: (pg.name || pg.url || '').toLowerCase()
PageKey(pg) == toLowerCase(IF pg.name # "" THEN pg.name ELSE pg.url)

\* a JavaScript Map as [keys, get]: keys in order of first insertion
EmptyMap == [keys |-> << >>, get |-> << >>]

\* an array of keys in place of the Map: a key set twice is listed twice
MapSetAppend(map, k, pg) ==
    [ keys |-> Append(map.keys, k),
      get  |-> [x \in DOMAIN map.get \cup {k} |-> IF x = k THEN pg ELSE map.get[x]] ]

\* Map.set: a new key goes last; a known key keeps its place and takes the new page
MapSet(map, k, pg) ==
    [ keys |-> IF k \in DOMAIN map.get THEN map.keys ELSE Append(map.keys, k),
      get  |-> [x \in DOMAIN map.get \cup {k} |-> IF x = k THEN pg ELSE map.get[x]] ]

RECURSIVE MapPagesFrom(_, _, _)
MapPagesFrom(pages, i, map) ==
    IF i > Len(pages) THEN map
    ELSE LET k == PageKey(pages[i])
         IN  MapPagesFrom(pages, i + 1, IF k # "" THEN MapSet(map, k, pages[i]) ELSE map)

mapPagesBy(pages) == MapPagesFrom(pages, 1, EmptyMap)

\* the keys _metricDeltas looks at, in its order
TrackedKeys ==
    << "requests", "transferKB", "domSize", "uniqueDomains", "compressedPct", "minifiedPct",
       "inlineStyles", "inlineScripts", "cssFiles", "jsFiles", "resizedImages",
       "hiddenDownloadedImages", "belowFoldNoLazy", "staticNoCache", "staticShortCache",
       "staticWithCookies", "imageLegacyPct", "wastedImagePct", "errors", "redirects",
       "cookieHeaderAvg" >>

\* an entry [k, v] per tracked key that is a number on either side, v = head - base
metricDeltas(baseM, headM) ==
    LET keep == SelectSeq(TrackedKeys,
                          LAMBDA k : Get(baseM, k).t = "number" \/ Get(headM, k).t = "number")
    IN  [i \in 1..Len(keep) |->
            [k |-> keep[i],
             v |-> NumberOrZero(Get(headM, keep[i])) - NumberOrZero(Get(baseM, keep[i]))]]

\* s with e put in after its first n elements
InsertAfter(s, n, e) == SubSeq(s, 1, n) \o <<e>> \o SubSeq(s, n + 1, Len(s))

\* entries.sort((a,b) => Math.abs(b[1]) - Math.abs(a[1])): stable, greatest |v| first
RECURSIVE SortAbsFrom(_, _, _)
SortAbsFrom(entries, i, acc) ==
    IF i > Len(entries) THEN acc
    ELSE LET n == Cardinality({j \in 1..Len(acc) : Abs(acc[j].v) >= Abs(entries[i].v)})
         IN  SortAbsFrom(entries, i + 1, InsertAfter(acc, n, entries[i]))

SortByAbsDesc(entries) == SortAbsFrom(entries, 1, << >>)

\* the n default of _topNChanges, and the n both calls pass
TopN == 5

\* without .slice(0, n): every negative or positive entry
topNChangesNoSlice(deltaObj, n, dir) ==
    LET entries == SortByAbsDesc(deltaObj)
    IN  IF dir = "neg" THEN SelectSeq(entries, LAMBDA e : e.v < 0)
        ELSE SelectSeq(entries, LAMBDA e : e.v > 0)

\* _topNChanges: the first n negative (dir "neg") or positive entries by |v|
topNChanges(deltaObj, n, dir) ==
    LET entries == SortByAbsDesc(deltaObj)
        neg     == SelectSeq(entries, LAMBDA e : e.v < 0)
        pos     == SelectSeq(entries, LAMBDA e : e.v > 0)
        pick    == IF dir = "neg" THEN neg ELSE pos
    IN  SubSeq(pick, 1, Min2(n, Len(pick)))

\* the default thresholds of _noteworthyMetrics, in whole units; 0 stands for no entry
NoteworthyDefault(k) ==
    CASE k = "requests"          -> 5
      [] k = "transferKB"        -> 250
      [] k = "domSize"           -> 200
      [] k = "uniqueDomains"     -> 2
      [] k = "compressedPct"     -> 5
      [] k = "minifiedPct"       -> 5
      [] k = "staticNoCache"     -> 2
      [] k = "staticShortCache"  -> 2
      [] k = "staticWithCookies" -> 1
      [] k = "imageLegacyPct"    -> 5
      [] k = "wastedImagePct"    -> 5
      [] k = "errors"            -> 1
      [] k = "redirects"         -> 1
      [] OTHER                   -> 0

\* Math.abs(v) > thr[k] in place of >=: a change of exactly the threshold is left out
noteworthyMetricsStrict(d, thresholds) ==
    LET thr(k) == IF k \in DOMAIN thresholds THEN thresholds[k] ELSE NoteworthyDefault(k)
    IN  SortByAbsDesc(SelectSeq(d, LAMBDA e : thr(e.k) # 0 /\ Abs(e.v) > 2 * thr(e.k)))

\* (thr[k] || 0) in place of (thr[k] || Infinity): a key without a threshold is
\* always listed
noteworthyMetricsNoInfinity(d, thresholds) ==
    LET thr(k) == IF k \in DOMAIN thresholds THEN thresholds[k] ELSE NoteworthyDefault(k)
    IN  SortByAbsDesc(SelectSeq(d, LAMBDA e : Abs(e.v) >= 2 * thr(e.k)))

\* (thr[k] ?? Infinity) in place of (thr[k] || Infinity): a threshold overridden to 0
\* is a threshold every change meets
noteworthyMetricsNullish(d, thresholds) ==
    LET thr(k) == IF k \in DOMAIN thresholds THEN thresholds[k] ELSE NoteworthyDefault(k)
    IN  SortByAbsDesc(SelectSeq(d, LAMBDA e :
            /\ (e.k \in DOMAIN thresholds \/ NoteworthyDefault(e.k) # 0)
            /\ Abs(e.v) >= 2 * thr(e.k)))

\* _noteworthyMetrics: thr = defaults overlaid with thresholds; an entry stays when
\* Math.abs(v) >= (thr[k] || Infinity); then sorted by |v|, greatest first
noteworthyMetrics(d, thresholds) ==
    LET thr(k) == IF k \in DOMAIN thresholds THEN thresholds[k] ELSE NoteworthyDefault(k)
    IN  SortByAbsDesc(SelectSeq(d, LAMBDA e : thr(e.k) # 0 /\ Abs(e.v) >= 2 * thr(e.k)))

\* Object.keys of a breakdown: the scorer writes the keys in the order of its weights
KeysOf(obj) == SelectSeq(MetricSeq, LAMBDA k : k \in DOMAIN obj)

\* deltaContrib: an entry per key of either breakdown, v = Math.round(head - base)
DeltaContrib(baseBreak, headBreak) ==
    LET allK == KeysOf(baseBreak) \o
                SelectSeq(KeysOf(headBreak), LAMBDA k : k \notin DOMAIN baseBreak)
        val(obj, k) == IF k \in DOMAIN obj THEN obj[k] ELSE 0
    IN  [i \in 1..Len(allK) |->
            [k |-> allK[i],
             v |-> MathRound(val(headBreak, allK[i]) - val(baseBreak, allK[i]), 2)]]

\* a removed page counted with its base score, not the negated one
PageDeltaUnsigned(baseScore, headScore) ==
    IF headScore.t # "null" /\ baseScore.t # "null" THEN headScore.v - baseScore.v
    ELSE IF headScore.t # "null" THEN headScore.v
    ELSE IF baseScore.t # "null" THEN baseScore.v
    ELSE 0

\* d of a page summary, from its two scores (null when the page is not on that side)
PageDelta(baseScore, headScore) ==
    IF headScore.t # "null" /\ baseScore.t # "null" THEN headScore.v - baseScore.v
    ELSE IF headScore.t # "null" THEN headScore.v
    ELSE IF baseScore.t # "null" THEN -baseScore.v
    ELSE 0

\* one page summary with the lists of its detail section, for key k
PageSummary(mb, mh, k) ==
    LET hasA == k \in DOMAIN mb.get
        hasB == k \in DOMAIN mh.get
        a    == mb.get[k]
        b    == mh.get[k]
        baseScore == IF hasA THEN Num(MathRound(OrZero(a.score), 1)) ELSE Null
        headScore == IF hasB THEN Num(MathRound(OrZero(b.score), 1)) ELSE Null
        deltaContrib == DeltaContrib(IF hasA THEN a.breakdown ELSE << >>,
                                     IF hasB THEN b.breakdown ELSE << >>)
        deltas == metricDeltas(IF hasA THEN a.metrics ELSE << >>,
                               IF hasB THEN b.metrics ELSE << >>)
    IN  [ key        |-> k,
          name       |-> IF hasB /\ b.name # "" THEN b.name
                         ELSE IF hasA /\ a.name # "" THEN a.name ELSE k,
          baseScore  |-> baseScore,
          headScore  |-> headScore,
          d          |-> PageDelta(baseScore, headScore),
          g          |-> gradeArrow(IF hasA THEN GradeOr(a.grade) ELSE "-",
                                    IF hasB THEN GradeOr(b.grade) ELSE "-"),
          w          |-> IF hasB /\ b.weight.t = "number" THEN b.weight.v
                         ELSE IF hasA /\ a.weight.t = "number" THEN a.weight.v ELSE 1,
          plafond    |-> IF /\ hasA /\ hasB
                            /\ a.ceilingApplied.t = "number" /\ b.ceilingApplied.t = "number"
                            /\ a.ceilingApplied.v # b.ceilingApplied.v
                         THEN <<a.ceilingApplied.v, b.ceilingApplied.v>> ELSE << >>,
          worst      |-> topNChanges(deltaContrib, TopN, "neg"),
          best       |-> topNChanges(deltaContrib, TopN, "pos"),
          noteworthy |-> noteworthyMetrics(deltas, << >>) ]

\* pageSummaries.sort((x,y) => x.d - y.d): stable, least d first
RECURSIVE SortDeltaFrom(_, _, _)
SortDeltaFrom(rows, i, acc) ==
    IF i > Len(rows) THEN acc
    ELSE LET n == Cardinality({j \in 1..Len(acc) : acc[j].d <= rows[i].d})
         IN  SortDeltaFrom(rows, i + 1, InsertAfter(acc, n, rows[i]))

\* the summaries left in the order of the keys, unsorted
SortByDeltaNone(rows) == rows

SortByDelta(rows) == SortDeltaFrom(rows, 1, << >>)

\* new Set([...mb.keys(), ...mh.keys()]): the keys of base, then the new keys of head
UnionKeys(mb, mh) == mb.keys \o SelectSeq(mh.keys, LAMBDA k : k \notin DOMAIN mb.get)

\* base minus head, in place of head minus base
ProdDeltaSwapped(b, h) == MathRound(OrZero(b.score100) - OrZero(h.score100), 1)

\* Math.round((head.score100||0) - (base.score100||0))
ProdDelta(b, h) == MathRound(OrZero(h.score100) - OrZero(b.score100), 1)

buildDiffMd(b, h) ==
    LET mb   == mapPagesBy(b.pages)
        mh   == mapPagesBy(h.pages)
        keys == UnionKeys(mb, mh)
    IN  [ prodDelta |-> ProdDelta(b, h),
          prodGrade |-> gradeArrow(GradeOr(b.grade), GradeOr(h.grade)),
          rows      |-> SortByDelta([i \in 1..Len(keys) |-> PageSummary(mb, mh, keys[i])]) ]

---------------------------------------------------------------------------
(* The snapshots the diff is run on *)

\* the most pages a snapshot of the page inputs holds
MaxPages == 2

Snapshot(score100, grade, pages) == [score100 |-> score100, grade |-> grade, pages |-> pages]

\* a page entry as run() pushes it: grade is the grade of its score
Page(name, url, score, weight, ceiling, breakdown, pmetrics) ==
    [ name |-> name, url |-> url, score |-> Num(score), grade |-> gradeAE(score),
      weight |-> weight, ceilingApplied |-> Num(ceiling),
      breakdown |-> breakdown, metrics |-> pmetrics ]

\* the metric keys the detail inputs vary, and the two a sparse page does not have
DetailKeys == {"requests", "transferKB", "domSize", "inlineStyles", "uniqueDomains", "errors"}

SparseKeys == {"uniqueDomains", "errors"}

\* the contribution (in halves) a page gets from key k when k is switched on:
\* 1.5, 1.5, 2, 2.5, 4, 4 -- differences that Math.round moves, and equal magnitudes
ContribOf(k) ==
    CASE k = "requests"      -> 3
      [] k = "transferKB"    -> 3
      [] k = "domSize"       -> 4
      [] k = "inlineStyles"  -> 5
      [] k = "uniqueDomains" -> 8
      [] OTHER               -> 8

\* and when k is switched off: 0.5 for errors, so that a page without the key differs
\* from it by half a point, and 0 for the others
ContribOff(k) == IF k = "errors" THEN 1 ELSE 0

\* the metric value (in halves) of key k when switched on: at the threshold for
\* requests (5) and errors (1), half a unit under it for transferKB (249.5) and
\* uniqueDomains (1.5), half a unit over it for domSize (200.5); inlineStyles has none
MetricOf(k) ==
    CASE k = "requests"      -> 10
      [] k = "transferKB"    -> 499
      [] k = "domSize"       -> 401
      [] k = "inlineStyles"  -> 100
      [] k = "uniqueDomains" -> 3
      [] OTHER               -> 2

DetailBreakdown(on, sparse) ==
    [k \in (IF sparse THEN DetailKeys \ SparseKeys ELSE DetailKeys) |->
        IF k \in on THEN ContribOf(k) ELSE ContribOff(k)]

DetailMetrics(on, sparse) ==
    [k \in (IF sparse THEN DetailKeys \ SparseKeys ELSE DetailKeys) |->
        Num(IF k \in on THEN MetricOf(k) ELSE 0)]

\* detail inputs: one page on both sides, every key switched on or off on each side
DetailInputs ==
    \E onB \in SUBSET DetailKeys, onH \in SUBSET DetailKeys,
       sparseB \in BOOLEAN, sparseH \in BOOLEAN :
        /\ base = Snapshot(Num(65), "C",
                    << Page("Home", "/Home", 65, Undefined, 100,
                            DetailBreakdown(onB, sparseB), DetailMetrics(onB, sparseB)) >>)
        /\ head = Snapshot(Num(65), "C",
                    << Page("Home", "/Home", 65, Undefined, 100,
                            DetailBreakdown(onH, sparseH), DetailMetrics(onH, sparseH)) >>)

\* the pages of the page inputs: three names, two of them equal but for the case, and
\* two scores; the page of score 70 has every detail key switched on
PageVariants ==
    { Page(n, "/p", s, IF n = "Cart" THEN Num(2) ELSE Undefined, IF s = 0 THEN 100 ELSE 80,
           DetailBreakdown(IF s = 0 THEN {} ELSE DetailKeys, FALSE),
           DetailMetrics(IF s = 0 THEN {} ELSE DetailKeys, FALSE)) :
        n \in {"Home", "home", "Cart"}, s \in {0, 70} }

\* page inputs: every list of up to MaxPages pages on each side
PageInputs ==
    \E bp \in SeqsUpTo(PageVariants, MaxPages), hp \in SeqsUpTo(PageVariants, MaxPages) :
        /\ base = Snapshot(Num(65), "C", bp)
        /\ head = Snapshot(Num(65), "C", hp)

\* key inputs: at most one page a side, with or without a name, with or without a url
KeyVariants ==
    { Page(n, u, 40, Undefined, 100, DetailBreakdown({}, TRUE), DetailMetrics({}, TRUE)) :
        n \in {"Home", "home", ""}, u \in {"/Home", ""} }

KeyInputs ==
    \E bp \in SeqsUpTo(KeyVariants, 1), hp \in SeqsUpTo(KeyVariants, 1) :
        /\ base = Snapshot(Num(40), "E", bp)
        /\ head = Snapshot(Num(40), "E", hp)

\* threshold inputs: one tracked metric changes by its threshold, or by half a unit
\* less or more (by 0.5 or 1000 when it has no threshold), upwards or downwards, from
\* 0 or from a page that does not have the metric
ThresholdInputs ==
    \E i \in 1..Len(TrackedKeys), step \in {-1, 0, 1}, up \in BOOLEAN,
       other \in {<< >>, <<Num(0)>>} :
        LET k  == TrackedKeys[i]
            x  == IF NoteworthyDefault(k) # 0 THEN 2 * NoteworthyDefault(k) + step
                  ELSE IF step = 0 THEN 1 ELSE 2000
            hi == Page("Home", "/Home", 40, Undefined, 100, << >>, [j \in {k} |-> Num(x)])
            lo == Page("Home", "/Home", 40, Undefined, 100, << >>,
                       [j \in (IF other = << >> THEN {} ELSE {k}) |-> Num(0)])
        IN  /\ base = Snapshot(Num(40), "E", << IF up THEN lo ELSE hi >>)
            /\ head = Snapshot(Num(40), "E", << IF up THEN hi ELSE lo >>)

\* global inputs: the product scores and grades, present or not, and no pages
GlobalInputs ==
    \E sb \in {Undefined, Num(0), Num(65), Num(80)}, sh \in {Undefined, Num(0), Num(65), Num(80)},
       gb \in {"", "B"}, gh \in {"", "B", "C"} :
        /\ base = Snapshot(sb, gb, << >>)
        /\ head = Snapshot(sh, gh, << >>)

---------------------------------------------------------------------------
(* The state machine of the diff: one call of _buildDiffMd on two snapshots *)

InitDiff ==
    /\ (DetailInputs \/ PageInputs \/ KeyInputs \/ ThresholdInputs \/ GlobalInputs)
    /\ metrics = ZeroMetrics
    /\ kpiCfg = YamlNull.kpi
    /\ result = NoResult
    /\ diffOut = NoDiff
    /\ pc = "loaded"
    /\ cmp = Idle
    /\ run = Idle
    /\ crawl = Idle

\* compareLatestReports: const md = _buildDiffMd(prod, base, head, ...)
BuildDiff ==
    /\ pc = "loaded"
    /\ diffOut' = buildDiffMd(base, head)
    /\ pc' = "diffed"
    /\ UNCHANGED <<metrics, kpiCfg, result, base, head, cmp, run, crawl>>

NextDiff == BuildDiff

SpecDiff == InitDiff /\ [][NextDiff]_vars

---------------------------------------------------------------------------
(* Properties of the diff *)

Diffed == pc = "diffed"

\* the rows of the diff, as a set of indices
Rows == 1..Len(diffOut.rows)

\* C15: the diff of a snapshot against itself has global delta 0, delta 0 on every
\* page, no contribution regression or improvement and no noteworthy change.
C15_SelfDiffIsEmpty ==
    (Diffed /\ base = head) =>
        /\ diffOut.prodDelta = 0
        /\ \A i \in Rows :
            /\ diffOut.rows[i].d = 0
            /\ diffOut.rows[i].worst = << >>
            /\ diffOut.rows[i].best = << >>
            /\ diffOut.rows[i].noteworthy = << >>

\* C15 witness: a snapshot with a non-zero product score and two pages, one of them
\* with non-zero score, contributions and metrics, was diffed against itself.
C15_Witness ==
    /\ Diffed
    /\ base = head
    /\ base.score100.v > 0
    /\ Len(diffOut.rows) = 2
    /\ \E i \in 1..Len(base.pages) :
        /\ base.pages[i].score.v > 0
        /\ base.pages[i].breakdown["errors"] > 0
        /\ base.pages[i].metrics["inlineStyles"].v > 0

\* score100 of a snapshot, a missing one counted as 0
Score100(s) == IF s.score100.t = "number" THEN s.score100.v ELSE 0

\* C16: the global delta is head.score100 - base.score100, a missing score100 counted
\* as 0, and it is the negation of the global delta of the diff taken the other way.
C16_GlobalDeltaAntisymmetric ==
    Diffed =>
        /\ diffOut.prodDelta = Score100(head) - Score100(base)
        /\ diffOut.prodDelta = -(buildDiffMd(head, base).prodDelta)

\* C16 witness: head has no score100, base has 65, and the delta is -65.
C16_Witness ==
    /\ Diffed
    /\ head.score100 = Undefined
    /\ base.score100 = Num(65)
    /\ diffOut.prodDelta = -65

\* the places of snapshot s that hold a page filed under key k
PlacesOf(s, k) == {j \in 1..Len(s.pages) : PageKey(s.pages[j]) = k}

\* the page of snapshot s the diff reads for key k: the last one filed under it
PageOf(s, k) == s.pages[CHOOSE j \in PlacesOf(s, k) : \A l \in PlacesOf(s, k) : l <= j]

\* C17: for every row of the diff, a page in both snapshots has delta headScore -
\* baseScore; a page only in head has no base score (null, not 0) and its head score
\* as delta; a page only in base has no head score and the negated base score as delta.
C17_PageDelta ==
    Diffed =>
        \A i \in Rows :
            LET row   == diffOut.rows[i]
                inB   == PlacesOf(base, row.key) # {}
                inH   == PlacesOf(head, row.key) # {}
            IN  /\ inB \/ inH
                /\ (inB /\ inH) =>
                    /\ row.baseScore = PageOf(base, row.key).score
                    /\ row.headScore = PageOf(head, row.key).score
                    /\ row.d = PageOf(head, row.key).score.v - PageOf(base, row.key).score.v
                /\ (inH /\ ~inB) =>
                    /\ row.baseScore = Null
                    /\ row.headScore = PageOf(head, row.key).score
                    /\ row.d = PageOf(head, row.key).score.v
                /\ (inB /\ ~inH) =>
                    /\ row.headScore = Null
                    /\ row.baseScore = PageOf(base, row.key).score
                    /\ row.d = -(PageOf(base, row.key).score.v)

\* C17 witness: scenario 5 -- a page only in head with score 70 is listed with no base
\* score and delta 70 -- next to a page only in base with score 70, listed with delta -70.
C17_Witness ==
    /\ Diffed
    /\ \E i \in Rows :
        /\ diffOut.rows[i].baseScore = Null
        /\ diffOut.rows[i].headScore = Num(70)
        /\ diffOut.rows[i].d = 70
    /\ \E i \in Rows :
        /\ diffOut.rows[i].headScore = Null
        /\ diffOut.rows[i].baseScore = Num(70)
        /\ diffOut.rows[i].d = -70

\* C18: the rows are in non-decreasing order of delta, and every removed page (no head
\* score) comes before every new page (no base score).
C18_RowsAscendingByDelta ==
    Diffed =>
        \A i \in Rows : \A j \in Rows :
            /\ i < j => diffOut.rows[i].d <= diffOut.rows[j].d
            /\ (diffOut.rows[i].headScore = Null /\ diffOut.rows[j].baseScore = Null) => i < j

\* C18 witness: both pages are in both snapshots, the first key gained 70 and the second
\* lost 70, and the diff lists the second key first.
C18_Witness ==
    /\ Diffed
    /\ Len(base.pages) = 2
    /\ Len(diffOut.rows) = 2
    /\ diffOut.rows[1].key = PageKey(base.pages[2])
    /\ diffOut.rows[1].d = -70
    /\ diffOut.rows[2].key = PageKey(base.pages[1])
    /\ diffOut.rows[2].d = 70

\* a removed page and a new page, both of score 0, tie at delta 0: the removed one is first
C18_TieReached ==
    /\ Diffed
    /\ Len(diffOut.rows) = 2
    /\ diffOut.rows[1].headScore = Null
    /\ diffOut.rows[2].baseScore = Null
    /\ diffOut.rows[1].d = 0
    /\ diffOut.rows[2].d = 0

\* the breakdown of the page of snapshot s under key k; none when s has no such page
BreakdownOf(s, k) == IF PlacesOf(s, k) = {} THEN << >> ELSE PageOf(s, k).breakdown

\* head contribution minus base contribution for metric key m of the page under key k,
\* in halves, a missing side counted as 0
ContribChange(k, m) ==
    (IF m \in DOMAIN BreakdownOf(head, k) THEN BreakdownOf(head, k)[m] ELSE 0)
    - (IF m \in DOMAIN BreakdownOf(base, k) THEN BreakdownOf(base, k)[m] ELSE 0)

\* r is n/2 rounded to the nearest integer, halves upwards: r - 1/2 <= n/2 < r + 1/2
IsRoundOfHalves(r, n) == 2 * r - 1 <= n /\ n < 2 * r + 1

RoundOfHalves(n) == CHOOSE r \in -Abs(n)..Abs(n) : IsRoundOfHalves(r, n)

\* list is the top list of the page under key k for the changes of the given sign
\* (-1 regressions, 1 improvements)
IsTopList(list, k, sign) ==
    LET bb      == BreakdownOf(base, k)
        hb      == BreakdownOf(head, k)
        keys    == DOMAIN bb \cup DOMAIN hb
        delta   == [m \in keys |->
                       RoundOfHalves((IF m \in DOMAIN hb THEN hb[m] ELSE 0)
                                     - (IF m \in DOMAIN bb THEN bb[m] ELSE 0))]
        signed  == {m \in keys : delta[m] * sign > 0}
        listed  == {list[i].k : i \in 1..Len(list)}
    IN  /\ listed \subseteq signed
        /\ Len(list) = Cardinality(listed)
        /\ Len(list) = Min2(5, Cardinality(signed))
        /\ \A i \in 1..Len(list) :
            /\ list[i].v = delta[list[i].k]
            /\ list[i].v # 0
            /\ \A j \in 1..Len(list) : i < j => Abs(list[i].v) >= Abs(list[j].v)
            /\ \A m \in signed \ listed : Abs(delta[m]) <= Abs(list[i].v)

\* C19: on every page the contribution delta of a key of either breakdown is
\* round(head - base), a missing side counted as 0; the regressions are the at most 5
\* negative deltas of greatest magnitude and the improvements the at most 5 positive
\* ones, each list in non-increasing magnitude, and a delta of 0 is in neither.
C19_TopContributionChanges ==
    Diffed =>
        \A i \in Rows :
            /\ IsTopList(diffOut.rows[i].worst, diffOut.rows[i].key, -1)
            /\ IsTopList(diffOut.rows[i].best, diffOut.rows[i].key, 1)

\* C19 witness: six keys lost contribution on one page and five of them are listed,
\* the last two listed of equal magnitude.
C19_Witness ==
    /\ Diffed
    /\ \E i \in Rows :
        /\ Cardinality({m \in DetailKeys : ContribChange(diffOut.rows[i].key, m) < -1}) = 6
        /\ Len(diffOut.rows[i].worst) = 5
        /\ diffOut.rows[i].worst[1].v = -4
        /\ diffOut.rows[i].worst[4].v = -2
        /\ diffOut.rows[i].worst[5].v = -1
        /\ diffOut.rows[i].best = << >>

\* a change of minus half a point rounds to 0 and is in neither list
C19_HalfRoundsToZero ==
    /\ Diffed
    /\ \E i \in Rows :
        /\ ContribChange(diffOut.rows[i].key, "errors") = -1
        /\ \A j \in 1..Len(diffOut.rows[i].worst) : diffOut.rows[i].worst[j].k # "errors"
        /\ \A j \in 1..Len(diffOut.rows[i].best) : diffOut.rows[i].best[j].k # "errors"

\* the thirteen tracked metrics with a default threshold, and the thresholds
Thresholded ==
    [ requests |-> 5, transferKB |-> 250, domSize |-> 200, uniqueDomains |-> 2,
      compressedPct |-> 5, minifiedPct |-> 5, staticNoCache |-> 2, staticShortCache |-> 2,
      staticWithCookies |-> 1, imageLegacyPct |-> 5, wastedImagePct |-> 5,
      errors |-> 1, redirects |-> 1 ]

\* the metrics object of the page of snapshot s under key k; none when s has no such page
MetricsOf(s, k) == IF PlacesOf(s, k) = {} THEN << >> ELSE PageOf(s, k).metrics

\* C20: on every page, a metric with a default threshold is listed as noteworthy, with
\* the change headValue - baseValue, if and only if the magnitude of the change is at
\* least the threshold; the list is in non-increasing magnitude.
C20_NoteworthyIffThreshold ==
    Diffed =>
        \A i \in Rows :
            LET list   == diffOut.rows[i].noteworthy
                bm     == MetricsOf(base, diffOut.rows[i].key)
                hm     == MetricsOf(head, diffOut.rows[i].key)
                val(o, m) == IF m \in DOMAIN o /\ o[m].t = "number" THEN o[m].v ELSE 0
                change == [m \in DOMAIN Thresholded |-> val(hm, m) - val(bm, m)]
            IN  /\ \A m \in DOMAIN Thresholded :
                    (Abs(change[m]) >= 2 * Thresholded[m])
                        <=> (\E j \in 1..Len(list) : list[j] = [k |-> m, v |-> change[m]])
                /\ \A j \in 1..Len(list) : \A l \in 1..Len(list) :
                    j < l => Abs(list[j].v) >= Abs(list[l].v)

\* C20 witness: on one page requests rose by exactly 5 and is listed, transferKB rose
\* by 249.5 and is not, and domSize, which rose by 200.5, is listed first.
C20_Witness ==
    /\ Diffed
    /\ \E i \in Rows :
        LET list == diffOut.rows[i].noteworthy
        IN  /\ Len(list) = 3
            /\ list[1] = [k |-> "domSize", v |-> 401]
            /\ list[2] = [k |-> "requests", v |-> 10]
            /\ list[3] = [k |-> "errors", v |-> 2]
            /\ MetricsOf(head, diffOut.rows[i].key)["transferKB"].v
                 - MetricsOf(base, diffOut.rows[i].key)["transferKB"].v = 499

\* the keys of the pages of snapshot s: the lower-cased name, else the lower-cased url;
\* a page with neither has no key
KeySet(s) == {PageKey(s.pages[j]) : j \in 1..Len(s.pages)} \ {""}

\* the names of the inputs that differ from "home" in letter case only
HomeNames == {"Home", "home"}

\* C21: the diff has exactly one row per key of the union of both key sets, a page
\* without a name is filed under its lower-cased url, and two pages whose names differ
\* only in letter case share one row.
C21_OneRowPerKey ==
    Diffed =>
        /\ {diffOut.rows[i].key : i \in Rows} = KeySet(base) \cup KeySet(head)
        /\ Len(diffOut.rows) = Cardinality(KeySet(base) \cup KeySet(head))
        /\ \A j \in 1..Len(base.pages) : \A l \in 1..Len(head.pages) :
            /\ (base.pages[j].name \in HomeNames /\ head.pages[l].name \in HomeNames) =>
                  \E i \in Rows :
                    /\ diffOut.rows[i].key = "home"
                    /\ diffOut.rows[i].baseScore # Null
                    /\ diffOut.rows[i].headScore # Null
            /\ (base.pages[j].name = "" /\ base.pages[j].url = "/Home") =>
                  \E i \in Rows : diffOut.rows[i].key = "/home" /\ diffOut.rows[i].baseScore # Null

\* C21 witness: base holds the pages Home and home, head the page home, and the diff
\* has the one row home with both scores.
C21_Witness ==
    /\ Diffed
    /\ Len(base.pages) = 2
    /\ base.pages[1].name = "Home"
    /\ base.pages[2].name = "home"
    /\ Len(head.pages) = 1
    /\ head.pages[1].name = "home"
    /\ Len(diffOut.rows) = 1
    /\ diffOut.rows[1].key = "home"
    /\ diffOut.rows[1].baseScore # Null
    /\ diffOut.rows[1].headScore # Null

\* a page without a name on both sides is matched by its url
C21_UrlFallbackReached ==
    /\ Diffed
    /\ Len(base.pages) = 1 /\ base.pages[1].name = "" /\ base.pages[1].url = "/Home"
    /\ Len(head.pages) = 1 /\ head.pages[1].name = "" /\ head.pages[1].url = "/Home"
    /\ Len(diffOut.rows) = 1
    /\ diffOut.rows[1].key = "/home"
    /\ diffOut.rows[1].d = 0

---------------------------------------------------------------------------
(* compareLatestReports of reporting/diff-generator.js (the same loop ends  *)
(* run() of greenit-kpi-runner-v3.9.7.js).                                  *)
(*                                                                          *)
(* A report directory is [readable, files, writable]: files are the         *)
(* *_RUN_*.json snapshots in the order of files.sort(), oldest first, each  *)
(* given by what reading it yields: "ok" a snapshot object, "corrupt" text  *)
(* JSON.parse rejects, "null" the JSON text null, on which _buildDiffMd     *)
(* throws a TypeError.                                                      *)

\* the most products productTotals holds
MaxProducts == 2

ProductNames == <<"Shop", "Blog", "Docs", "News">>

Dir(readable, files, writable) == [readable |-> readable, files |-> files, writable |-> writable]

\* the file lists of the inputs: none, one, and two or three with each kind of file
\* in each of the last two places
FileLists ==
    { << >>, <<"ok">>, <<"corrupt">>, <<"ok", "ok">>, <<"ok", "corrupt">>, <<"corrupt", "ok">>,
      <<"null", "ok">>, <<"ok", "null">>, <<"ok", "ok", "ok">>, <<"corrupt", "ok", "ok">> }

DirStates ==
    {Dir(TRUE, f, TRUE) : f \in FileLists}
        \cup {Dir(FALSE, <<"ok", "ok">>, TRUE), Dir(TRUE, <<"ok", "ok">>, FALSE)}

\* what one pass of the try block does for a directory: nothing is thrown past the catch
compareOne(prod, dir) ==
    LET n == Len(dir.files)
        no(kind) == [prod |-> prod, kind |-> kind, base |-> 0, head |-> 0]
    IN  IF ~dir.readable THEN no("failed")
        ELSE IF n < 2 THEN no("skipped")
        ELSE IF dir.files[n - 1] # "ok" \/ dir.files[n] # "ok" THEN no("failed")
        ELSE IF ~dir.writable THEN no("failed")
        ELSE [prod |-> prod, kind |-> "diffed", base |-> n - 1, head |-> n]

\* the loop body without try / catch: the first failure leaves the function
compareStepNoCatch(c) ==
    LET prod == c.products[c.i]
        out  == IF c.want # "all" /\ toLowerCase(prod) # c.want
                THEN [prod |-> prod, kind |-> "filtered", base |-> 0, head |-> 0]
                ELSE compareOne(prod, c.dirs[prod])
    IN  IF out.kind = "failed" THEN [c EXCEPT !.pc = "thrown"]
        ELSE [c EXCEPT !.i = c.i + 1,
                       !.done = Append(c.done, out),
                       !.warnings = c.warnings + (IF out.kind = "skipped" THEN 1 ELSE 0)]

\* one pass of for (const [prod] of productTotals.entries())
compareStep(c) ==
    LET prod == c.products[c.i]
        out  == IF c.want # "all" /\ toLowerCase(prod) # c.want
                THEN [prod |-> prod, kind |-> "filtered", base |-> 0, head |-> 0]
                ELSE compareOne(prod, c.dirs[prod])
    IN  [c EXCEPT !.i = c.i + 1,
                  !.done = Append(c.done, out),
                  !.warnings = c.warnings + (IF out.kind = "skipped" THEN 1 ELSE 0),
                  !.errors = c.errors + (IF out.kind = "failed" THEN 1 ELSE 0)]

\* the call: compareLatestFor is "" when --compare-latest was not given
CompareCall(compareLatestFor, products, dirs) ==
    [ pc |-> "called", compareLatestFor |-> compareLatestFor,
      want |-> toLowerCase(compareLatestFor),
      products |-> products, dirs |-> dirs,
      i |-> 1, done |-> << >>, warnings |-> 0, errors |-> 0 ]

InitCompare ==
    /\ metrics = ZeroMetrics
    /\ kpiCfg = YamlNull.kpi
    /\ result = NoResult
    /\ base = NoSnapshot
    /\ head = NoSnapshot
    /\ diffOut = NoDiff
    /\ pc = "compare"
    /\ run = Idle
    /\ crawl = Idle
    /\ \E n \in 0..MaxProducts, for \in {"", "all", "Shop", "blog"} :
        \E dirs \in [{ProductNames[j] : j \in 1..n} -> DirStates] :
            cmp = CompareCall(for, SubSeq(ProductNames, 1, n), dirs)

\* if (!compareLatestFor) return
CompareOff ==
    /\ cmp.pc = "called"
    /\ cmp.compareLatestFor = ""
    /\ cmp' = [cmp EXCEPT !.pc = "returned"]
    /\ UNCHANGED <<metrics, kpiCfg, result, pc, base, head, diffOut, run, crawl>>

CompareProduct ==
    /\ cmp.pc = "called"
    /\ cmp.compareLatestFor # ""
    /\ cmp.i <= Len(cmp.products)
    /\ cmp' = compareStep(cmp)
    /\ UNCHANGED <<metrics, kpiCfg, result, pc, base, head, diffOut, run, crawl>>

CompareReturn ==
    /\ cmp.pc = "called"
    /\ cmp.compareLatestFor # ""
    /\ cmp.i > Len(cmp.products)
    /\ cmp' = [cmp EXCEPT !.pc = "returned"]
    /\ UNCHANGED <<metrics, kpiCfg, result, pc, base, head, diffOut, run, crawl>>

NextCompare == CompareOff \/ CompareProduct \/ CompareReturn

SpecCompare == InitCompare /\ [][NextCompare]_vars

---------------------------------------------------------------------------
(* Properties of compareLatestReports *)

\* product j is one the call was asked to compare
Wanted(j) == cmp.want = "all" \/ toLowerCase(cmp.products[j]) = cmp.want

\* C22: the call never throws; every product is taken in order and none is left out
\* because of an earlier one; a wanted product with fewer than two snapshot files is
\* skipped with one warning, and one whose directory or newest two files cannot be
\* read gives up its own diff only.
C22_CompareNeverFatal ==
    /\ cmp.pc \in {"called", "returned"}
    /\ cmp.compareLatestFor # "" =>
        /\ Len(cmp.done) = cmp.i - 1
        /\ cmp.pc = "returned" => Len(cmp.done) = Len(cmp.products)
        /\ cmp.warnings = Cardinality({j \in 1..Len(cmp.done) : cmp.done[j].kind = "skipped"})
        /\ \A j \in 1..Len(cmp.done) :
            LET dir == cmp.dirs[cmp.products[j]]
                n   == Len(dir.files)
            IN  /\ cmp.done[j].prod = cmp.products[j]
                /\ (Wanted(j) /\ dir.readable /\ n < 2) => cmp.done[j].kind = "skipped"
                /\ (Wanted(j) /\ (~dir.readable \/ (n >= 2 /\ "corrupt" \in {dir.files[n - 1], dir.files[n]})))
                      => cmp.done[j].kind = "failed"
                /\ (Wanted(j) /\ dir = Dir(TRUE, <<"ok", "ok">>, TRUE)) => cmp.done[j].kind = "diffed"

\* C22 witness: the first product has a snapshot that does not parse, the second has a
\* single snapshot, and the call returned after going through both.
C22_Witness ==
    /\ cmp.pc = "returned"
    /\ Len(cmp.done) = 2
    /\ cmp.done[1].kind = "failed"
    /\ "corrupt" \in {cmp.dirs[cmp.products[1]].files[j] : j \in 1..Len(cmp.dirs[cmp.products[1]].files)}
    /\ cmp.done[2].kind = "skipped"
    /\ cmp.warnings = 1

---------------------------------------------------------------------------
(* JavaScript numbers in the run loop: IEEE 754 binary64.

   A non-negative number is held as the natural number of units of 2^-UnitBits
   it is made of: every number the run loop computes from page weights of at
   least 0.1 and integer scores is a whole number of such units.  The natural
   number is written in base 2^LimbBits, least significant limb first and
   without leading zero limbs.  A number is representable when it has at most
   53 significant bits; every operation computes the exact result and rounds
   it to the nearest representable number, ties to the even one. *)

\* the binary64 significand has 53 bits
Precision == 53

\* the unit is 2^-UnitBits: the last bit of the number read from 0.1
UnitBits == Precision + 3

\* the quotient of a division is computed in units of 2^-QuotientBits
QuotientBits == UnitBits + 12

\* the product of two limbs fits the 31 bits of an integer
LimbBits == 31 \div 2

Limb == 2^LimbBits

LimbAt(a, j) == IF j >= 1 /\ j <= Len(a) THEN a[j] ELSE 0

RECURSIVE Trim(_)
\* without leading zero limbs
Trim(a) == IF a = << >> \/ a[Len(a)] # 0 THEN a ELSE Trim(SubSeq(a, 1, Len(a) - 1))

RECURSIVE Limbs(_)
\* the limbs of a small natural number
Limbs(n) == IF n = 0 THEN << >> ELSE <<n % Limb>> \o Limbs(n \div Limb)

RECURSIVE ValOf(_)
\* the small natural number with these limbs
ValOf(a) == IF a = << >> THEN 0 ELSE a[1] + Limb * ValOf(Tail(a))

RECURSIVE BAddFrom(_, _, _, _)
\* the limbs from place j of a + b, with carry c into place j
BAddFrom(a, b, j, c) ==
    IF j > Len(a) /\ j > Len(b) THEN Limbs(c)
    ELSE LET s == LimbAt(a, j) + LimbAt(b, j) + c
         IN  <<s % Limb>> \o BAddFrom(a, b, j + 1, s \div Limb)

BAdd(a, b) == BAddFrom(a, b, 1, 0)

RECURSIVE BSubFrom(_, _, _, _)
\* the limbs from place j of a - b (a >= b), with borrow c from place j
BSubFrom(a, b, j, c) ==
    IF j > Len(a) THEN << >>
    ELSE LET s == LimbAt(a, j) - LimbAt(b, j) - c
         IN  <<s % Limb>> \o BSubFrom(a, b, j + 1, IF s < 0 THEN 1 ELSE 0)

BSub(a, b) == Trim(BSubFrom(a, b, 1, 0))

RECURSIVE BGeFrom(_, _, _)
\* a >= b, given that they have the same limbs above place j
BGeFrom(a, b, j) ==
    IF j = 0 THEN TRUE
    ELSE IF a[j] # b[j] THEN a[j] > b[j]
    ELSE BGeFrom(a, b, j - 1)

BGe(a, b) ==
    IF Len(a) # Len(b) THEN Len(a) > Len(b) ELSE BGeFrom(a, b, Len(a))

RECURSIVE BMulFrom(_, _, _, _)
\* the limbs from place j of s * a, with carry c into place j
BMulFrom(s, a, j, c) ==
    IF j > Len(a) THEN Limbs(c)
    ELSE LET p == s * a[j] + c
         IN  <<p % Limb>> \o BMulFrom(s, a, j + 1, p \div Limb)

\* s * a for a natural number s below Limb
BMul(s, a) == Trim(BMulFrom(s, a, 1, 0))

\* the number of bits of a
BitLen(a) ==
    IF a = << >> THEN 0
    ELSE LimbBits * (Len(a) - 1) + (CHOOSE k \in 1..LimbBits : 2^(k - 1) <= a[Len(a)] /\ a[Len(a)] < 2^k)

\* bit i of a, the least significant being bit 1
BBit(a, i) == (LimbAt(a, (i - 1) \div LimbBits + 1) \div 2^((i - 1) % LimbBits)) % 2

\* a * 2^d
BShl(a, d) ==
    LET ls == d \div LimbBits
        bs == d % LimbBits
    IN  Trim([j \in 1..(Len(a) + ls + 1) |->
                ((LimbAt(a, j - ls) * 2^bs) % Limb) + (LimbAt(a, j - ls - 1) \div 2^(LimbBits - bs))])

\* a div 2^d
BShr(a, d) ==
    LET ls == d \div LimbBits
        bs == d % LimbBits
    IN  IF Len(a) <= ls THEN << >>
        ELSE Trim([j \in 1..(Len(a) - ls) |->
                    (a[j + ls] \div 2^bs) + ((LimbAt(a, j + ls + 1) % 2^bs) * 2^(LimbBits - bs))])

RECURSIVE BDivBits(_, _, _, _, _)
\* long division of a by b over the bits of a from bit i down to bit lo + 1:
\* st.q is the quotient so far, st.r the remainder so far
BDivBits(a, b, i, lo, st) ==
    IF i = lo THEN st
    ELSE LET r2 == BAddFrom(st.r, st.r, 1, BBit(a, i))
         IN  IF BGe(r2, b)
             THEN BDivBits(a, b, i - 1, lo, [q |-> BAddFrom(st.q, st.q, 1, 1), r |-> BSub(r2, b)])
             ELSE BDivBits(a, b, i - 1, lo, [q |-> BAddFrom(st.q, st.q, 1, 0), r |-> r2])

RECURSIVE BDivFrom(_, _, _, _)
\* the same, one limb of a at a time
BDivFrom(a, b, i, st) ==
    IF i = 0 THEN st
    ELSE BDivFrom(a, b, i - LimbBits, BDivBits(a, b, i, i - LimbBits, st))

\* quotient and remainder of a by b, b # 0
BDivMod(a, b) == BDivFrom(a, b, LimbBits * Len(a), [q |-> << >>, r |-> << >>])

\* the nearest number with at most Precision significant bits, where the exact
\* value is x plus a fraction of a unit that is not zero when inexact holds
FlRound(x, inexact) ==
    IF BitLen(x) <= Precision THEN x
    ELSE LET d   == BitLen(x) - Precision
             q   == BShr(x, d)
             low == inexact \/ BShl(BShr(x, d - 1), d - 1) # x
             up  == BBit(x, d) = 1 /\ (low \/ q[1] % 2 = 1)
         IN  BShl(IF up THEN BAdd(q, <<1>>) ELSE q, d)

\* the number a decimal literal n/10 of the configuration is read as
ParseTenths(n) ==
    LET d == BDivMod(BShl(Limbs(n), UnitBits + 8), Limbs(10))
    IN  BShr(FlRound(d.q, d.r # << >>), 8)

\* x + y
FlAdd(x, y) == FlRound(BAdd(x, y), FALSE)

\* s * x for an integer s
FlMul(s, x) == FlRound(BMul(s, x), FALSE)

\* x / y, in units of 2^-QuotientBits
FlDiv(x, y) ==
    LET d == BDivMod(BShl(x, QuotientBits), y)
    IN  FlRound(d.q, d.r # << >>)

\* Math.round of a number in units of 2^-QuotientBits: floor(x + 0.5)
JsMathRound(x) == ValOf(BShr(BAdd(x, BShl(<<1>>, QuotientBits - 1)), QuotientBits))
---------------------------------------------------------------------------
(* The run loop: src/src/main.js

   run() takes the targets of the configuration one after the other.  For each
   it clears the cookies, orders the pages (public first), and for each page
   logs in when the page needs it and no login was done yet, crawls the page,
   scores it and adds it to the totals of the product.  After the last target
   it writes one report and one snapshot per product, then calls
   compareLatestReports.  The state of one run is the record run. *)

\* the grade of a product score (the cut-offs of main.js, not those of the scorer)
mainGradeAE(score) ==
    IF score >= 90 THEN "A"
    ELSE IF score >= 80 THEN "B"
    ELSE IF score >= 70 THEN "C"
    ELSE IF score >= 60 THEN "D"
    ELSE IF score >= 50 THEN "E"
    ELSE IF score >= 40 THEN "F"
    ELSE "G"

\* safeName on the product names of the inputs: runs of non-word characters
\* become one "_", and a "_" at either end is dropped
safeName(s) ==
    CASE s = "My Shop" -> "My_Shop"
      [] OTHER         -> s

\* p.auth === 'required' || p.requiresAuth === true
needsAuth(p) == p.auth = "required" \/ p.requiresAuth

\* the pages in the order of the configuration
pagesAsConfigured(pages) == pages

\* [...pages].sort(public first): the sort is stable
pagesOrdered(pages) ==
    SelectSeq(pages, LAMBDA p : ~needsAuth(p)) \o SelectSeq(pages, LAMBDA p : needsAuth(p))

\* a login configuration: absent, or an object with or without a login url and
\* with or without credentials (in the object or in the environment)
NoLogin == [t |-> "undefined", url |-> FALSE, credentials |-> FALSE]

Login(url, credentials) == [t |-> "object", url |-> url, credentials |-> credentials]

\* target.login || cfg.login
LoginOr(a, b) == IF a.t = "undefined" THEN b ELSE a

\* what the site does during a login: the login url loads or page.goto throws,
\* the username and password fields are found or not
Site(reachable, fields) == [reachable |-> reachable, fields |-> fields]

Sites == { Site(TRUE, TRUE), Site(TRUE, FALSE), Site(FALSE, TRUE) }

\* performLogin: "false", "true", or "throw" when page.goto rejects
performLogin(loginCfg, site) ==
    IF loginCfg.t = "undefined" THEN "false"
    ELSE IF loginCfg.url /\ ~site.reachable THEN "throw"
    ELSE IF ~loginCfg.credentials THEN "false"
    ELSE IF ~site.fields THEN "false"
    ELSE "true"

\* a weight of the configuration: absent, or the number read from n/10
NoWeight == [t |-> "undefined", f |-> << >>]

\* the tenths the weights of the inputs are written in
WeightTenths == {0, 1, 4, 10, 20}

ParsedWeight == [n \in WeightTenths |-> ParseTenths(n)]

Weight(n) == [t |-> "number", f |-> ParsedWeight[n]]

\* kpi.page_weights: absent, or weights by product and page name, and by page name
NoPageWeights == [t |-> "undefined", products |-> << >>, names |-> << >>]

\* (pw[product] && pw[product][name]) ?? pw[name]
PageWeightsLookup(pw, product, name) ==
    LET byProduct == IF product \in DOMAIN pw.products /\ name \in DOMAIN pw.products[product]
                     THEN pw.products[product][name] ELSE NoWeight
    IN  IF byProduct.t # "undefined" THEN byProduct
        ELSE IF name \in DOMAIN pw.names THEN pw.names[name] ELSE NoWeight

\* typeof p.weight === 'number' ? p.weight : ((page_weights && lookup) ?? 1)
pageWeight(p, product, pw) ==
    IF p.weight.t = "number" THEN p.weight.f
    ELSE LET w == IF pw.t = "undefined" THEN NoWeight
                  ELSE PageWeightsLookup(pw, product, p.name)
         IN  IF w.t = "undefined" THEN ParsedWeight[10] ELSE w.f

\* x || d on a number
OrDefault(x, d) == IF x = 0 THEN d ELSE x


\* the entry agg.pages.push(...) adds for a page; scale is in percent
pageEntry(p, kpi, weight) ==
    [ name |-> p.name, url |-> p.url, score |-> OrDefault(kpi.score, 0),
      grade |-> GradeOr(kpi.grade), weight |-> weight, metrics |-> p.metrics,
      norms |-> kpi.norms, breakdown |-> kpi.breakdown, effW |-> kpi.effW,
      ceilingApplied |-> OrDefault(kpi.ceilingApplied, 100),
      scale |-> OrDefault(kpi.scale, 100) ]

\* a product of productTotals before its first page
NoTotals(prod) ==
    [prod |-> prod, sumWeightedScore |-> << >>, sumWeights |-> << >>, pages |-> << >>]

\* productTotals as the sequence of its entries, in the order they were set
HasProduct(totals, prod) == \E j \in 1..Len(totals) : totals[j].prod = prod

\* the totals after a page of product prod with this result and weight
aggregate(totals, prod, kpi, weight, entry) ==
    LET t0 == IF HasProduct(totals, prod) THEN totals ELSE Append(totals, NoTotals(prod))
        j  == CHOOSE j \in 1..Len(t0) : t0[j].prod = prod
    IN  [t0 EXCEPT ![j] =
            [ prod |-> prod,
              sumWeightedScore |-> FlAdd(@.sumWeightedScore, FlMul(OrDefault(kpi.score, 0), weight)),
              sumWeights |-> FlAdd(@.sumWeights, weight),
              pages |-> Append(@.pages, entry) ]]

\* score100 of a product: totalW > 0 ? Math.round(sumWeightedScore / totalW) : 0
score100Of(agg) ==
    IF agg.sumWeights # << >> THEN JsMathRound(FlDiv(agg.sumWeightedScore, agg.sumWeights))
    ELSE 0

\* a snapshot file: ts is the time in its name, run tells the run that wrote it
SnapshotFile(ts, by, prod, score100, grade, pages) ==
    [ ts |-> ts, run |-> by, product |-> prod, score100 |-> score100, grade |-> grade,
      pages |-> pages ]

\* a snapshot an earlier run left
EarlierFile(ts, prod) == SnapshotFile(ts, "earlier", prod, 0, "G", << >>)

RECURSIVE InsertByTs(_, _)
\* the listing with file f at its place (names sort by their time)
InsertByTs(files, f) ==
    IF files = << >> THEN <<f>>
    ELSE IF f.ts < files[1].ts THEN <<f>> \o files
    ELSE <<files[1]>> \o InsertByTs(Tail(files), f)

\* writeFileSync that replaces the newest file of the directory
writeFileOverNewest(files, f) ==
    IF files = << >> THEN <<f>> ELSE Append(SubSeq(files, 1, Len(files) - 1), f)

\* fs.writeFileSync of a snapshot: a file of that name is replaced, else it is new
writeFile(files, f) == InsertByTs(SelectSeq(files, LAMBDA g : g.ts # f.ts), f)

\* an event of the run: ev is "clearCookies", "login" or "crawl"; t the target,
\* p the place of the page in the ordered pages, auth whether the page needs a
\* login, res what performLogin returned
Event(ev, t, p, auth, res) == [ev |-> ev, t |-> t, p |-> p, auth |-> auth, res |-> res]

\* the start of the body of for (const target of cfg.targets || [])
runTarget(r) ==
    [r EXCEPT !.ordered = pagesOrdered(r.targets[r.ti].pages),
              !.isLoggedIn = FALSE,
              !.pi = 1,
              !.trace = Append(r.trace, Event("clearCookies", r.ti, 0, FALSE, ""))]


\* if (needsAuth && !_isLoggedIn) { clearCookies; await performLogin(...); _isLoggedIn = true }
runLogin(r, site) ==
    LET res == performLogin(LoginOr(r.targets[r.ti].login, r.login), site)
        tr  == r.trace \o << Event("clearCookies", r.ti, r.pi, TRUE, ""),
                             Event("login", r.ti, r.pi, TRUE, res) >>
    IN  IF res = "throw" THEN [r EXCEPT !.trace = tr, !.pc = "thrown"]
        ELSE [r EXCEPT !.trace = tr, !.isLoggedIn = TRUE]

\* the rest of the loop body: crawlPage, calculateMetrics, computeCompositeKpi and
\* the totals; loaded is FALSE when page.goto rejects in crawlPage
runPage(r, kpiConfig, loaded) ==
    LET p      == r.ordered[r.pi]
        prod   == r.targets[r.ti].product
        kpi    == computeCompositeKpi(p.metrics, kpiConfig)
        weight == pageWeight(p, prod, r.page_weights)
    IN  IF ~loaded THEN [r EXCEPT !.pc = "thrown"]
        ELSE [r EXCEPT !.trace = Append(r.trace, Event("crawl", r.ti, r.pi, needsAuth(p), "")),
                       !.totals = aggregate(r.totals, prod, kpi, weight, pageEntry(p, kpi, weight)),
                       !.pi = r.pi + 1]

\* the end of the loop over the pages of a target
runTargetEnd(r) == [r EXCEPT !.ti = r.ti + 1, !.pi = 0, !.ordered = << >>]


\* one pass of for (const [prod, agg] of productTotals.entries()); written is FALSE
\* when a write throws inside the try
runSummary(r, written) ==
    LET agg      == r.totals[r.si]
        score100 == score100Of(agg)
        dir      == safeName(agg.prod)
        file     == SnapshotFile(r.now, "this", agg.prod, score100, mainGradeAE(score100), agg.pages)
    IN  [r EXCEPT !.si = r.si + 1,
                  !.now = r.now + 1,
                  !.store = IF written
                            THEN [r.store EXCEPT ![dir] = writeFile(r.store[dir], file)]
                            ELSE r.store]

RECURSIVE compareAll(_)
\* the loop of compareLatestReports to its end
compareAll(c) == IF c.i > Len(c.products) THEN c ELSE compareAll(compareStep(c))

\* compareLatestReports(outDir, productTotals, compareLatestFor) on the files of the store
compareLatestReports(r) ==
    LET products == [j \in 1..Len(r.totals) |-> r.totals[j].prod]
        dirs     == [prod \in {products[j] : j \in 1..Len(products)} |->
                        Dir(TRUE, [j \in 1..Len(r.store[safeName(prod)]) |-> "ok"], TRUE)]
        call     == CompareCall(r.compareLatestFor, products, dirs)
    IN  [(IF r.compareLatestFor = "" THEN call ELSE compareAll(call)) EXCEPT !.pc = "returned"]

---------------------------------------------------------------------------
(* The runs the loop is checked on *)

\* the most targets of a configuration, and the most pages of its first target
MaxTargets == 2

MaxRunPages == 3

\* the most pages of the first target in the configurations with logins
MaxAuthPages == 2

\* the most snapshots earlier runs left in a directory
MaxEarlier == 2

\* kpi: the weight on requests alone, the default bands, a ceiling of 0 on errors
RunKpi ==
    Cfg([k \in Metrics |-> IF k = "requests" THEN Num(100) ELSE Num(0)], NoThresholds,
        << Rule(Cmp("errors", ">", 5), Num(0)) >>)

\* the metrics calculateMetrics returns for a page with these requests and errors
PageMetrics(requests, errors) ==
    [ZeroMetrics EXCEPT !["requests"] = Num(requests), !["errors"] = Num(errors)]

\* a page of the configuration
CfgPage(name, auth, requiresAuth, weight, pmetrics) ==
    [ name |-> name, url |-> name, auth |-> auth, requiresAuth |-> requiresAuth,
      weight |-> weight, metrics |-> pmetrics ]

\* public pages that score 0, 25 and 50 with weights 0.1, 0.1 and 0.4, and one the
\* ceiling of 0 applies to
WeightedPages ==
    { CfgPage("Home", "", FALSE, Weight(1), PageMetrics(130, 0)),
      CfgPage("Cart", "", FALSE, Weight(1), PageMetrics(100, 0)),
      CfgPage("Docs", "", FALSE, Weight(4), PageMetrics(60, 0)),
      CfgPage("News", "", FALSE, Weight(20), PageMetrics(20, 6)) }

\* a public page, one with auth: required, one with requiresAuth: true
AuthPages ==
    { CfgPage("Home", "", FALSE, NoWeight, PageMetrics(20, 0)),
      CfgPage("Cart", "required", FALSE, NoWeight, PageMetrics(40, 0)),
      CfgPage("Docs", "optional", TRUE, Weight(0), PageMetrics(60, 0)) }

Target(product, login, pages) == [product |-> product, login |-> login, pages |-> pages]

\* the second and later targets: an auth page listed before a public one
NextTarget(product) ==
    Target(product, NoLogin,
           << CfgPage("Cart", "required", FALSE, Weight(10), PageMetrics(40, 0)),
              CfgPage("Home", "", FALSE, Weight(10), PageMetrics(20, 0)) >>)

\* the products of the second and later targets: "Shop" is the product of the first
NextProducts == {"Blog", "Shop"}

\* kpi.page_weights: { Shop: { Cart: 2 }, Home: 0.4, Cart: 0.1 }
SomePageWeights ==
    [ t |-> "object",
      products |-> [p \in {"Shop"} |-> [n \in {"Cart"} |-> Weight(20)]],
      names |-> [n \in {"Home", "Cart"} |-> IF n = "Home" THEN Weight(4) ELSE Weight(1)] ]

\* the state of run() before the loop over the targets
RunCall(login, targets, pw, compareLatestFor, store) ==
    [ pc |-> "run", login |-> login, targets |-> targets, page_weights |-> pw,
      compareLatestFor |-> compareLatestFor,
      ti |-> 1, pi |-> 0, ordered |-> << >>, isLoggedIn |-> FALSE,
      trace |-> << >>, totals |-> << >>, si |-> 1,
      now |-> MaxEarlier + 1, store |-> store, earlier |-> store ]

\* the reports directories with k snapshots of earlier runs each
StoreOf(targets, k) ==
    [d \in {safeName(targets[j].product) : j \in 1..Len(targets)} |->
        [i \in 1..k |-> EarlierFile(i, d)]]

\* one target with weighted public pages, compared with --compare-latest
WeightRuns ==
    \E pages \in SeqsUpTo(WeightedPages, MaxRunPages) :
        LET targets == << Target("Shop", NoLogin, pages) >>
        IN  run = RunCall(NoLogin, targets, NoPageWeights, "all", StoreOf(targets, 1))

\* targets with public and auth pages, with and without login configurations
AuthRuns ==
    \E n \in 0..MaxTargets, pages \in SeqsUpTo(AuthPages, MaxAuthPages),
       login \in {NoLogin, Login(TRUE, TRUE)}, cfgLogin \in {NoLogin, Login(FALSE, FALSE)},
       rest \in [2..MaxTargets -> NextProducts], pw \in {NoPageWeights, SomePageWeights} :
        LET all     == [j \in 1..MaxTargets |->
                          IF j = 1 THEN Target("Shop", login, pages) ELSE NextTarget(rest[j])]
            targets == SubSeq(all, 1, n)
        IN  /\ n = 0 => pages = << >> /\ login = NoLogin /\ cfgLogin = NoLogin
            /\ \A j \in 2..MaxTargets : j > n => rest[j] = "Blog"
            /\ pw = SomePageWeights => login = NoLogin /\ cfgLogin = NoLogin
            /\ run = RunCall(cfgLogin, targets, pw, "", StoreOf(targets, 0))

\* two products with snapshots of earlier runs, compared or not
SnapshotRuns ==
    \E k \in 0..MaxEarlier, for \in {"", "all", "my shop"} :
        LET targets == << Target("My Shop", NoLogin, <<CfgPage("Home", "", FALSE, NoWeight, PageMetrics(20, 0))>>),
                          NextTarget("Blog"), NextTarget("My Shop") >>
        IN  run = RunCall(Login(TRUE, TRUE), targets, NoPageWeights, for, StoreOf(targets, k))

InitRun ==
    /\ metrics = ZeroMetrics
    /\ kpiCfg = loadConfig(YamlDoc(RunKpi)).kpi
    /\ result = NoResult
    /\ base = NoSnapshot
    /\ head = NoSnapshot
    /\ diffOut = NoDiff
    /\ pc = "run"
    /\ cmp = Idle
    /\ crawl = Idle
    /\ (WeightRuns \/ AuthRuns \/ SnapshotRuns)

Running == run.pc = "run"

RunTarget ==
    /\ Running
    /\ run.ti <= Len(run.targets)
    /\ run.pi = 0
    /\ run' = runTarget(run)
    /\ UNCHANGED <<metrics, kpiCfg, result, pc, base, head, diffOut, cmp, crawl>>

InPages == Running /\ run.pi >= 1 /\ run.pi <= Len(run.ordered)

RunLogin ==
    /\ InPages
    /\ needsAuth(run.ordered[run.pi]) /\ ~run.isLoggedIn
    /\ \E site \in Sites : run' = runLogin(run, site)
    /\ UNCHANGED <<metrics, kpiCfg, result, pc, base, head, diffOut, cmp, crawl>>

RunPage ==
    /\ InPages
    /\ ~(needsAuth(run.ordered[run.pi]) /\ ~run.isLoggedIn)
    /\ \E loaded \in BOOLEAN : run' = runPage(run, kpiCfg, loaded)
    /\ UNCHANGED <<metrics, kpiCfg, result, pc, base, head, diffOut, cmp, crawl>>

RunTargetEnd ==
    /\ Running
    /\ run.pi >= 1 /\ run.pi > Len(run.ordered)
    /\ run' = runTargetEnd(run)
    /\ UNCHANGED <<metrics, kpiCfg, result, pc, base, head, diffOut, cmp, crawl>>

RunSummary ==
    /\ Running
    /\ run.ti > Len(run.targets)
    /\ run.si <= Len(run.totals)
    /\ \E written \in BOOLEAN : run' = runSummary(run, written)
    /\ UNCHANGED <<metrics, kpiCfg, result, pc, base, head, diffOut, cmp, crawl>>

RunCompare ==
    /\ Running
    /\ run.ti > Len(run.targets)
    /\ run.si > Len(run.totals)
    /\ cmp' = compareLatestReports(run)
    /\ run' = [run EXCEPT !.pc = "done"]
    /\ UNCHANGED <<metrics, kpiCfg, result, pc, base, head, diffOut, crawl>>

NextRun == RunTarget \/ RunLogin \/ RunPage \/ RunTargetEnd \/ RunSummary \/ RunCompare

SpecRun == InitRun /\ [][NextRun]_vars

---------------------------------------------------------------------------
(* Properties of the run loop *)

InRun == run.pc # "idle"

\* the crawls of the pages of product prod so far, in their order
CrawlsOf(prod) ==
    SelectSeq(run.trace, LAMBDA e : e.ev = "crawl" /\ run.targets[e.t].product = prod)

\* the page of the configuration a crawl event is about
PageAt(e) == pagesOrdered(run.targets[e.t].pages)[e.p]

\* every page of every target has been crawled and scored
AllScored ==
    /\ run.ti > Len(run.targets)
    /\ \A t \in 1..Len(run.targets) :
        Cardinality({j \in 1..Len(run.trace) : run.trace[j].ev = "crawl" /\ run.trace[j].t = t})
            = Len(run.targets[t].pages)

\* the places of the files this run wrote in directory d
WrittenNow(d) == {j \in 1..Len(run.store[d]) : run.store[d][j].run = "this"}

\* C23: in a run a product's snapshot is written at most once, only after every page
\* of every target has been scored, with one entry per scored page of the product;
\* the snapshots of earlier runs stay as they were; and compare-latest, after the
\* writes, takes the newest snapshot as head and the one just before it as base.
C23_SnapshotLifecycle ==
    InRun =>
        /\ \A d \in DOMAIN run.store :
            LET files == run.store[d]
            IN  /\ Cardinality(WrittenNow(d)) <= 1
                /\ SelectSeq(files, LAMBDA f : f.run = "earlier") = run.earlier[d]
                /\ \A j, k \in 1..Len(files) : j < k => files[j].ts < files[k].ts
                /\ \A j \in WrittenNow(d) :
                    LET crawls == CrawlsOf(files[j].product)
                    IN  /\ AllScored
                        /\ Len(files[j].pages) = Len(crawls)
                        /\ \A k \in 1..Len(crawls) : files[j].pages[k].name = PageAt(crawls[k]).name
        /\ cmp.pc = "returned" =>
            /\ run.pc = "done"
            /\ run.si > Len(run.totals)
            /\ \A j \in 1..Len(cmp.done) :
                LET files == run.store[safeName(cmp.done[j].prod)]
                IN  cmp.done[j].kind = "diffed" =>
                        /\ cmp.done[j].head = Len(files)
                        /\ cmp.done[j].base = Len(files) - 1
                        /\ \A k \in 1..Len(files) : files[k].ts <= files[cmp.done[j].head].ts
                        /\ \A k \in 1..Len(files) :
                            k # cmp.done[j].head => files[k].ts <= files[cmp.done[j].base].ts
                        /\ WrittenNow(safeName(cmp.done[j].prod)) \subseteq {cmp.done[j].head}

\* C23 witness: a run over three targets of two products ended; the directory of
\* "My Shop" held two earlier snapshots and now holds a third with the three pages
\* of the product, which compare-latest took as head against the second.
C23_Witness ==
    /\ run.pc = "done"
    /\ Len(run.targets) = 3
    /\ Len(run.earlier["My_Shop"]) = 2
    /\ Len(run.store["My_Shop"]) = 3
    /\ run.store["My_Shop"][3].run = "this"
    /\ Len(run.store["My_Shop"][3].pages) = 3
    /\ cmp.pc = "returned"
    /\ \E j \in 1..Len(cmp.done) :
        cmp.done[j] = [prod |-> "My Shop", kind |-> "diffed", base |-> 2, head |-> 3]


\* the snapshots this run wrote
Written ==
    UNION { { run.store[d][j] : j \in WrittenNow(d) } : d \in DOMAIN run.store }

\* C24 as stated: the grade the run gives a product whose score100 is s is the grade
\* computeCompositeKpi gives a page whose score is s; a product made of a single
\* page has the grade of that page.
C24_AsStated ==
    InRun =>
        \A f \in Written :
            /\ f.grade = gradeAE(f.score100)
            /\ (Len(f.pages) = 1 /\ f.pages[1].weight # << >>) => f.grade = f.pages[1].grade


\* C25 as stated: every page entry of the totals carries the score, grade,
\* ceilingApplied and scale of the result computeCompositeKpi returned for the page.
C25_AsStated ==
    InRun =>
        \A j \in 1..Len(run.totals) : \A k \in 1..Len(run.totals[j].pages) :
            LET e   == run.totals[j].pages[k]
                kpi == computeCompositeKpi(e.metrics, kpiCfg)
            IN  /\ e.score = kpi.score
                /\ e.grade = kpi.grade
                /\ e.ceilingApplied = kpi.ceilingApplied
                /\ e.scale = kpi.scale


RECURSIVE TotalsOver(_, _)
\* the totals of one product after the first k of these page entries were added
TotalsOver(pages, k) ==
    IF k = 0 THEN << >>
    ELSE aggregate(TotalsOver(pages, k - 1), "", [score |-> pages[k].score],
                   pages[k].weight, pages[k])

\* score100 of a product whose pages were scored in this order
Score100Over(pages) == score100Of(TotalsOver(pages, Len(pages))[1])

\* C26 as stated: when the weights of the pages of a product are all positive, its
\* score100 lies between the lowest and the highest page score and is the same for
\* every order in which the pages could have been scored.
C26_AsStated ==
    InRun =>
        \A f \in Written :
            (f.pages # << >> /\ \A k \in 1..Len(f.pages) : f.pages[k].weight # << >>) =>
                /\ \E k \in 1..Len(f.pages) : f.pages[k].score <= f.score100
                /\ \E k \in 1..Len(f.pages) : f.pages[k].score >= f.score100
                /\ \A order \in Reorderings(Len(f.pages)) :
                    Score100Over([k \in 1..Len(f.pages) |-> f.pages[order[k]]]) = f.score100


\* the places in the trace of the events of target t
EventsOf(t) == {j \in 1..Len(run.trace) : run.trace[j].t = t}

\* the places in the trace of the logins of target t
LoginsOf(t) == {j \in EventsOf(t) : run.trace[j].ev = "login"}

C28_AsStated ==
    InRun =>
        \A j \in 1..Len(run.trace) :
            (run.trace[j].ev = "crawl" /\ run.trace[j].auth) =>
                \E k \in LoginsOf(run.trace[j].t) : k < j /\ run.trace[k].res = "true"


---------------------------------------------------------------------------
(* crawlPage and its response handlers: src/src/crawler/page-crawler.js

   crawlPage registers an async handler for the responses of the page, then awaits
   page.goto, the settle delay and page.evaluate, and returns the arrays the
   handlers fill.  A handler counts the response in statusCounts in its first
   synchronous part, awaits resp.body() at least once, and pushes the response to
   responses in its last part.  The state of one crawl is the record crawl. *)

\* the most responses the page sends during a crawl
MaxResponses == 3

\* the status codes of the responses of the inputs
Statuses == {200, 301, 404, 500}

\* status >= 500 ? '5xx' : status >= 400 ? '4xx' : status >= 300 ? '3xx' : '2xx'
bucket(status) ==
    IF status >= 500 THEN "5xx"
    ELSE IF status >= 400 THEN "4xx"
    ELSE IF status >= 300 THEN "3xx"
    ELSE "2xx"

NoStatusCounts == [b \in {"2xx", "3xx", "4xx", "5xx"} |-> 0]

NoCrawlMetrics == [requests |-> 0, errors |-> 0, redirects |-> 0]

\* crawlPage up to the registration of the handler, for a page that sends these
\* responses: handler[i] is "waiting" before response i arrives, "body" while its
\* handler awaits resp.body(), "done" after it pushed the response
CrawlCall(statuses) ==
    [ pc |-> "goto", statuses |-> statuses,
      handler |-> [i \in 1..Len(statuses) |-> "waiting"],
      statusCounts |-> NoStatusCounts, responses |-> << >>,
      metrics |-> NoCrawlMetrics ]

\* page.on('response', ...) up to its first await: the status is counted
onResponse(c, i) ==
    [c EXCEPT !.statusCounts[bucket(c.statuses[i])] = @ + 1,
              !.handler[i] = "body"]

\* the handler after its last await: responses.push({...})
onBody(c, i) ==
    [c EXCEPT !.responses = Append(@, c.statuses[i]),
              !.handler[i] = "done"]

\* calculateMetrics: requests, errors and redirects
calculateMetrics(responses, statusCounts) ==
    [ requests |-> Len(responses),
      errors |-> statusCounts["4xx"] + statusCounts["5xx"],
      redirects |-> statusCounts["3xx"] ]

InitCrawl ==
    /\ metrics = ZeroMetrics
    /\ kpiCfg = YamlNull.kpi
    /\ result = NoResult
    /\ base = NoSnapshot
    /\ head = NoSnapshot
    /\ diffOut = NoDiff
    /\ pc = "crawl"
    /\ cmp = Idle
    /\ run = Idle
    /\ \E statuses \in SeqsUpTo(Statuses, MaxResponses) : crawl = CrawlCall(statuses)

\* the page is attached and its handler registered
Listening == crawl.pc \in {"goto", "settle", "evaluate", "crawled"}

\* a response arrives: the handler runs to its first await
ResponseArrives ==
    /\ Listening
    /\ \E i \in 1..Len(crawl.statuses) :
        /\ crawl.handler[i] = "waiting"
        /\ \A j \in 1..(i - 1) : crawl.handler[j] # "waiting"
        /\ crawl' = onResponse(crawl, i)
    /\ UNCHANGED <<metrics, kpiCfg, result, pc, base, head, diffOut, cmp, run>>

\* resp.body() settles: the handler runs to its end
BodyArrives ==
    /\ crawl.pc # "idle"
    /\ \E i \in 1..Len(crawl.statuses) :
        /\ crawl.handler[i] = "body"
        /\ crawl' = onBody(crawl, i)
    /\ UNCHANGED <<metrics, kpiCfg, result, pc, base, head, diffOut, cmp, run>>

\* await page.goto(url, { waitUntil: 'domcontentloaded' }) resolves
CrawlGoto ==
    /\ crawl.pc = "goto"
    /\ crawl' = [crawl EXCEPT !.pc = "settle"]
    /\ UNCHANGED <<metrics, kpiCfg, result, pc, base, head, diffOut, cmp, run>>

\* await page.waitForTimeout(settleAfterMs) resolves
CrawlSettle ==
    /\ crawl.pc = "settle"
    /\ crawl' = [crawl EXCEPT !.pc = "evaluate"]
    /\ UNCHANGED <<metrics, kpiCfg, result, pc, base, head, diffOut, cmp, run>>

\* await page.evaluate(...) resolves and crawlPage returns its arrays
CrawlReturn ==
    /\ crawl.pc = "evaluate"
    /\ crawl' = [crawl EXCEPT !.pc = "crawled"]
    /\ UNCHANGED <<metrics, kpiCfg, result, pc, base, head, diffOut, cmp, run>>

\* run(): after await page.content(), calculateMetrics reads the arrays
CrawlMeasure ==
    /\ crawl.pc = "crawled"
    /\ crawl' = [crawl EXCEPT !.pc = "measured",
                              !.metrics = calculateMetrics(crawl.responses, crawl.statusCounts)]
    /\ UNCHANGED <<metrics, kpiCfg, result, pc, base, head, diffOut, cmp, run>>

NextCrawl ==
    ResponseArrives \/ BodyArrives \/ CrawlGoto \/ CrawlSettle \/ CrawlReturn \/ CrawlMeasure

SpecCrawl == InitCrawl /\ [][NextCrawl]_vars

\* C29 as stated: when calculateMetrics reads the result of crawlPage, every response
\* counted in statusCounts is in responses, so errors and redirects never count a
\* response that requests omits.
C29_AsStated ==
    crawl.pc = "measured" =>
        /\ crawl.statusCounts["2xx"] + crawl.statusCounts["3xx"]
             + crawl.statusCounts["4xx"] + crawl.statusCounts["5xx"] = Len(crawl.responses)
        /\ crawl.metrics.errors + crawl.metrics.redirects <= crawl.metrics.requests


---------------------------------------------------------------------------
(* _noteworthyMetrics with overrides of its thresholds: one call on the deltas of
   one page, the overrides in diffOut.thresholds and the list in diffOut.noteworthy *)

\* the overrides of the inputs, in whole units: 0 switches a threshold off
OverrideValues == {0, 1, 300}

\* the changes of the inputs, in half units: half a unit, 300, 1000
ChangeValues == {1, 600, 2000}

\* the call of _noteworthyMetrics(deltas, thresholds) not made yet
NoteworthyCall(thresholds) == [thresholds |-> thresholds, noteworthy |-> << >>]

\* override inputs: one tracked metric changes, upwards or downwards, next to domSize,
\* which rises by 400.5; the threshold of the metric, of domSize, of both or of neither
\* is overridden
OverrideInputs ==
    \E i \in 1..Len(TrackedKeys), x \in ChangeValues, up \in BOOLEAN,
       ovD \in {<< >>} \cup [{"domSize"} -> OverrideValues] :
      \E ovK \in {<< >>} \cup [{TrackedKeys[i]} -> OverrideValues] :
        LET k  == TrackedKeys[i]
            bm == [j \in {k, "domSize"} |-> IF j = k THEN Num(IF up THEN 0 ELSE x) ELSE Num(0)]
            hm == [j \in {k, "domSize"} |-> IF j = k THEN Num(IF up THEN x ELSE 0) ELSE Num(801)]
        IN  /\ base = Snapshot(Num(40), "E",
                               << Page("Home", "/Home", 40, Undefined, 100, << >>, bm) >>)
            /\ head = Snapshot(Num(40), "E",
                               << Page("Home", "/Home", 40, Undefined, 100, << >>, hm) >>)
            /\ diffOut = NoteworthyCall([j \in DOMAIN ovK \cup DOMAIN ovD |->
                                            IF j \in DOMAIN ovK THEN ovK[j] ELSE ovD[j]])

InitNoteworthy ==
    /\ OverrideInputs
    /\ metrics = ZeroMetrics
    /\ kpiCfg = YamlNull.kpi
    /\ result = NoResult
    /\ pc = "deltas"
    /\ cmp = Idle
    /\ run = Idle
    /\ crawl = Idle

\* the deltas of the page of the two snapshots
PageDeltas == metricDeltas(base.pages[1].metrics, head.pages[1].metrics)

\* const noteworthy = _noteworthyMetrics(deltas, thresholds)
Noteworthy ==
    /\ pc = "deltas"
    /\ diffOut' = [diffOut EXCEPT !.noteworthy = noteworthyMetrics(PageDeltas, diffOut.thresholds)]
    /\ pc' = "noteworthy"
    /\ UNCHANGED <<metrics, kpiCfg, result, base, head, cmp, run, crawl>>

NextNoteworthy == Noteworthy

SpecNoteworthy == InitNoteworthy /\ [][NextNoteworthy]_vars

---------------------------------------------------------------------------
(* Properties of the noteworthy filter with overrides *)

\* the tracked metrics without a default threshold
Unthresholded ==
    {"inlineStyles", "inlineScripts", "cssFiles", "jsFiles", "resizedImages",
     "hiddenDownloadedImages", "belowFoldNoLazy", "cookieHeaderAvg"}

\* C30: a tracked metric that has no default threshold and no override, or whose
\* threshold is overridden to 0, is never listed as noteworthy, whatever its change.
C30_NoThresholdNeverListed ==
    pc = "noteworthy" =>
        \A j \in 1..Len(diffOut.noteworthy) :
            LET k == diffOut.noteworthy[j].k
            IN  /\ ~(k \in Unthresholded /\ k \notin DOMAIN diffOut.thresholds)
                /\ ~(k \in DOMAIN diffOut.thresholds /\ diffOut.thresholds[k] = 0)

\* C30 witness: requests rose by 1000 with its threshold overridden to 0, domSize rose
\* by 400.5 with its default threshold, and the list holds domSize only.
C30_Witness ==
    /\ pc = "noteworthy"
    /\ "requests" \in DOMAIN diffOut.thresholds
    /\ diffOut.thresholds["requests"] = 0
    /\ \E j \in 1..Len(PageDeltas) : PageDeltas[j] = [k |-> "requests", v |-> 2000]
    /\ diffOut.noteworthy = << [k |-> "domSize", v |-> 801] >>

====
